---- MODULE Spec2Model ----
(***************************************************************************)
(* A model of jsoncxx: the Value variant, the string streams, the          *)
(* recursive-descent readers and the stream-insertion serializer.          *)
(*                                                                         *)
(* The repository holds several revisions of each component.  A build      *)
(* pairs one reader with the Value class it is written against:            *)
(*   generic_reader (src/reader.hpp, src/stream.hpp) uses generic_value    *)
(*   (src/unnamed/part_000); Reader (src/unnamed/part_002) uses Value      *)
(*   (src/jsoncxx.hpp or src/value.hpp).                                   *)
(* The variable build holds the revisions in use; it is chosen in Init     *)
(* and never changes.                                                      *)
(*                                                                         *)
(* Characters are one-character strings, texts are sequences of them.      *)
(* A Value is a record [type_, value_]; the union value_ is a record of    *)
(* its four members, of which type_ says which one is live.  Containers    *)
(* are held inline (a Value owns its subtree).                             *)
(***************************************************************************)
EXTENDS Integers, Sequences, FiniteSets, TLC

\* ------------------------------------------------------------------------
\* Bounds of the model
\* ------------------------------------------------------------------------

\* longest text typed character by character
MaxLen == 3
\* most Values (nodes of the trees) the driver keeps alive in doc and other
MaxNodes == 4
\* largest array index the driver tries
MaxIndex == 3

\* ------------------------------------------------------------------------
\* Characters
\* ------------------------------------------------------------------------

\* the end-of-input marker '\0' that terminates every C string
NUL == "NUL"

Ascii ==
    ("\t" :> 9) @@ ("\n" :> 10) @@ ("\r" :> 13) @@ (" " :> 32) @@
    ("\"" :> 34) @@ ("+" :> 43) @@ ("," :> 44) @@ ("-" :> 45) @@
    ("." :> 46) @@ ("0" :> 48) @@ ("1" :> 49) @@ ("2" :> 50) @@
    ("3" :> 51) @@ ("4" :> 52) @@ ("5" :> 53) @@ ("6" :> 54) @@
    ("7" :> 55) @@ ("8" :> 56) @@ ("9" :> 57) @@ (":" :> 58) @@
    ("E" :> 69) @@ ("[" :> 91) @@ ("\\" :> 92) @@ ("]" :> 93) @@
    ("a" :> 97) @@ ("b" :> 98) @@ ("e" :> 101) @@ ("f" :> 102) @@
    ("l" :> 108) @@ ("n" :> 110) @@ ("r" :> 114) @@ ("s" :> 115) @@
    ("t" :> 116) @@ ("u" :> 117) @@ ("x" :> 120) @@ ("{" :> 123) @@
    ("}" :> 125) @@ (NUL :> 0)

DigitChars == <<"0", "1", "2", "3", "4", "5", "6", "7", "8", "9">>

IsDigit(c) == Ascii[c] >= Ascii["0"] /\ Ascii[c] <= Ascii["9"]

DigitVal(c) == Ascii[c] - Ascii["0"]

RECURSIVE Repeat(_, _)
Repeat(c, n) == IF n <= 0 THEN <<>> ELSE <<c>> \o Repeat(c, n - 1)

\* std::basic_string::operator< : lexicographic on character codes
RECURSIVE StrLess(_, _)
StrLess(a, b) ==
    IF b = <<>> THEN FALSE
    ELSE IF a = <<>> THEN TRUE
    ELSE IF Ascii[Head(a)] # Ascii[Head(b)] THEN Ascii[Head(a)] < Ascii[Head(b)]
    ELSE StrLess(Tail(a), Tail(b))

\* std::hash<string>: some function of the contents (collisions exist)
RECURSIVE CodeSum(_)
CodeSum(s) == IF s = <<>> THEN 0 ELSE Ascii[Head(s)] + CodeSum(Tail(s))

StdHash(s) == 1 + (CodeSum(s) % 3)

\* ------------------------------------------------------------------------
\* Value: types and payload
\* ------------------------------------------------------------------------

ValueType == {"NullType", "FalseType", "TrueType", "ObjectType",
              "ArrayType", "StringType", "NumberType"}

NumericType == {"NaturalNumber", "RealNumber"}

\* a real m * 10^e, kept normalised (m has no trailing zero, 0 is 0*10^0)
RECURSIVE NormReal(_, _)
NormReal(m, e) ==
    IF m = 0 THEN [m |-> 0, e |-> 0]
    ELSE IF m % 10 = 0 THEN NormReal(m \div 10, e + 1)
    ELSE [m |-> m, e |-> e]

\* the union ValueHolder after memset(&value_, 0, sizeof(ValueHolder))
ZeroHolder ==
    [s |-> [str_ |-> <<>>, hash_ |-> 0],
     n |-> [num_ |-> [n |-> 0, r |-> [m |-> 0, e |-> 0]], type_ |-> "NaturalNumber"],
     o |-> [members_ |-> <<>>],
     a |-> [elements_ |-> <<>>]]

\* bits left in a value_ that no constructor wrote
JunkHolder ==
    [ZeroHolder EXCEPT !.n = [num_ |-> [n |-> 12, r |-> [m |-> 5, e |-> -1]],
                              type_ |-> "RealNumber"],
                       !.s = [str_ |-> <<>>, hash_ |-> 2]]

Junk == {ZeroHolder, JunkHolder}

\* Value() : type_(NullType), value_ not written
ValueNull(junk) == [type_ |-> "NullType", value_ |-> junk]

\* Value(bool value)
ValueBool(b, junk) ==
    [type_ |-> IF b THEN "TrueType" ELSE "FalseType", value_ |-> junk]

\* Value(T value) for an integral T
ValueNatural(n, junk) ==
    [type_ |-> "NumberType",
     value_ |-> [junk EXCEPT !.n = [num_ |-> [n |-> n, r |-> junk.n.num_.r],
                                    type_ |-> "NaturalNumber"]]]

\* Value(T value) for a floating-point T
ValueReal(r, junk) ==
    [type_ |-> "NumberType",
     value_ |-> [junk EXCEPT !.n = [num_ |-> [n |-> junk.n.num_.n, r |-> r],
                                    type_ |-> "RealNumber"]]]

\* Value(const char_type* begin, const char_type* end) and the other string
\* constructors: value.hpp stores the hash, the older revisions leave it unset
ValueString(vr, str, junk) ==
    [type_ |-> "StringType",
     value_ |-> [junk EXCEPT !.s = [str_ |-> str,
                                    hash_ |-> IF vr = "value.hpp" THEN StdHash(str)
                                              ELSE junk.s.hash_]]]

\* Value(ValueType type): memset, then allocate the container
ValueOfType(type) == [type_ |-> type, value_ |-> ZeroHolder]

\* void clear()
clear(v) ==
    IF v.type_ \in {"ArrayType", "ObjectType", "StringType"}
    THEN [type_ |-> "NullType", value_ |-> ZeroHolder]
    ELSE v

\* ------------------------------------------------------------------------
\* Value: copy and move
\* ------------------------------------------------------------------------

\* Value(const Value& other): only the live member is copied, deeply
RECURSIVE ValueCopy(_, _)
ValueCopy(other, junk) ==
    [type_ |-> other.type_,
     value_ |->
        CASE other.type_ = "ObjectType" ->
                [junk EXCEPT !.o = [members_ |->
                    [i \in DOMAIN other.value_.o.members_ |->
                        [first |-> ValueCopy(other.value_.o.members_[i].first, junk),
                         second |-> ValueCopy(other.value_.o.members_[i].second, junk)]]]]
          [] other.type_ = "ArrayType" ->
                [junk EXCEPT !.a = [elements_ |->
                    [i \in DOMAIN other.value_.a.elements_ |->
                        ValueCopy(other.value_.a.elements_[i], junk)]]]
          [] other.type_ = "StringType" ->
                [junk EXCEPT !.s = [str_ |-> other.value_.s.str_,
                                    hash_ |-> other.value_.s.hash_]]
          [] other.type_ = "NumberType" ->
                [junk EXCEPT !.n = other.value_.n]
          [] OTHER -> junk]

\* Value& operator= (const Value& other), this and other distinct objects
CopyAssign(this, other) == ValueCopy(other, clear(this).value_)

\* Value& operator= (Value&& other), this and other distinct objects.
\* value.hpp: clear, take the type, swap the unions, reset the source.
\* jsoncxx.hpp and part_000: clear, swap the types, and swap the unions only
\* when the type received has a payload.
MoveAssign(vr, this, other) ==
    LET c == clear(this) IN
    IF vr = "value.hpp"
    THEN [this  |-> [type_ |-> other.type_, value_ |-> other.value_],
          other |-> [type_ |-> "NullType", value_ |-> c.value_]]
    ELSE IF other.type_ \in {"ObjectType", "ArrayType", "StringType", "NumberType"}
         THEN [this  |-> [type_ |-> other.type_, value_ |-> other.value_],
               other |-> [type_ |-> c.type_, value_ |-> c.value_]]
         ELSE [this  |-> [type_ |-> other.type_, value_ |-> c.value_],
               other |-> [type_ |-> c.type_, value_ |-> other.value_]]

\* Value(Value&& other); junk is what the new object's union held.
\* value.hpp: type_(NullType), then delegate to the move assignment.
\* jsoncxx.hpp and part_000: type_(rhs.type_), swap the unions, reset rhs.
MoveConstruct(vr, other, junk) ==
    IF vr = "value.hpp"
    THEN MoveAssign(vr, ValueNull(junk), other)
    ELSE [this  |-> [type_ |-> other.type_, value_ |-> other.value_],
          other |-> [type_ |-> "NullType", value_ |-> junk]]

\* ------------------------------------------------------------------------
\* Value: arrays
\* ------------------------------------------------------------------------

\* size_type size() const, for the types the assertion admits
size(v) ==
    CASE v.type_ = "ArrayType" -> Len(v.value_.a.elements_)
      [] v.type_ = "ObjectType" -> Len(v.value_.o.members_)
      [] OTHER -> 0

\* the element put before the others
appendFront(vr, this, value) ==
    LET arr == IF this.type_ = "NullType"
               THEN MoveAssign(vr, this, ValueOfType("ArrayType")).this
               ELSE this
        mv  == MoveConstruct(vr, value, ZeroHolder)
    IN [this  |-> [arr EXCEPT !.value_.a.elements_ = <<mv.this>> \o @],
        value |-> mv.other,
        back  |-> Len(arr.value_.a.elements_) + 1]

\* self_type& append(self_type&& value), on a Null or Array Value: a Null
\* Value first becomes an empty Array; the element is move-constructed;
\* back is the position of the element the returned reference designates
append(vr, this, value) ==
    LET arr == IF this.type_ = "NullType"
               THEN MoveAssign(vr, this, ValueOfType("ArrayType")).this
               ELSE this
        mv  == MoveConstruct(vr, value, ZeroHolder)
    IN [this  |-> [arr EXCEPT !.value_.a.elements_ = Append(@, mv.this)],
        value |-> mv.other,
        back  |-> Len(arr.value_.a.elements_) + 1]

\* self_type& append(const self_type& value): the element is copy-constructed
appendCopy(vr, this, value) ==
    LET arr == IF this.type_ = "NullType"
               THEN MoveAssign(vr, this, ValueOfType("ArrayType")).this
               ELSE this
    IN [arr EXCEPT !.value_.a.elements_ = Append(@, ValueCopy(value, ZeroHolder))]

\* the bound test with <= in place of < : one index too many is let through
ArrayIndexOff(elements_, index) ==
    IF index <= Len(elements_)
    THEN [st |-> "ok", exc |-> "", msg |-> "", at |-> index + 1]
    ELSE [st |-> "throw", exc |-> "runtime_error", msg |-> "Out of range", at |-> 0]

\* Array::operator[] (size_t index): at is the position in elements_ the
\* returned reference designates (std::next(elements_->begin(), index))
ArrayIndex(elements_, index) ==
    IF index < Len(elements_)
    THEN [st |-> "ok", exc |-> "", msg |-> "", at |-> index + 1]
    ELSE [st |-> "throw", exc |-> "runtime_error", msg |-> "Out of range", at |-> 0]

\* ------------------------------------------------------------------------
\* Value: objects
\* ------------------------------------------------------------------------

\* bool operator< (const self_type& other) const: by hash, then by string
KeyLess(a, b) ==
    IF a.value_.s.hash_ = b.value_.s.hash_
    THEN StrLess(a.value_.s.str_, b.value_.s.str_)
    ELSE a.value_.s.hash_ < b.value_.s.hash_

\* position of the member whose key is equivalent to key, or 0.
\* std::map: neither key is less than the other; std::unordered_map: the
\* keys hash alike and std::equal_to compares the strings.
FindMember(vr, members_, key) ==
    LET hit == {i \in DOMAIN members_ :
                  IF vr = "value.hpp"
                  THEN ~KeyLess(members_[i].first, key) /\ ~KeyLess(key, members_[i].first)
                  ELSE /\ members_[i].first.value_.s.hash_ = key.value_.s.hash_
                       /\ members_[i].first.value_.s.str_ = key.value_.s.str_}
    IN IF hit = {} THEN 0 ELSE CHOOSE i \in hit : \A j \in hit : i <= j

\* std::map::emplace: an equivalent key keeps the map as it is, a new key
\* goes to its place in the order of operator<
MapEmplace(members_, key, value) ==
    IF FindMember("value.hpp", members_, key) # 0 THEN members_
    ELSE LET below == {i \in DOMAIN members_ : KeyLess(members_[i].first, key)}
             k == Cardinality(below)
         IN SubSeq(members_, 1, k) \o <<[first |-> key, second |-> value]>>
                \o SubSeq(members_, k + 1, Len(members_))

\* void insert(self_type&& key, self_type&& value), on an Object Value with
\* a String key.
\* value.hpp: members_->emplace(make_pair(move(key), move(value))).
\* jsoncxx.hpp and part_000: (value_.o)[key] = value, where operator[]
\* (key_type&) sets the key's hash, finds or creates the member, and the
\* copy assignment then replaces the member's value.
insert(vr, this, key, value) ==
    IF vr = "value.hpp"
    THEN [this  |-> [this EXCEPT !.value_.o.members_ = MapEmplace(@, key, value)],
          value |-> MoveConstruct(vr, value, ZeroHolder).other]
    ELSE LET hkey == [key EXCEPT !.value_.s.hash_ = StdHash(key.value_.s.str_)]
             at   == FindMember(vr, this.value_.o.members_, hkey)
         IN [this  |-> IF at # 0
                       THEN [this EXCEPT !.value_.o.members_[at].second =
                                            CopyAssign(@, value)]
                       ELSE [this EXCEPT !.value_.o.members_ =
                                Append(@, [first |-> hkey,
                                           second |-> CopyAssign(ValueNull(ZeroHolder),
                                                                 value)])],
             value |-> value]

\* Object::make_key(const string& key)
make_key(vr, key) ==
    [ValueString(vr, key, ZeroHolder) EXCEPT !.value_.s.hash_ = StdHash(key)]

\* const self_type& operator[] (const string& key) const, on a Null or
\* Object Value: the member's value, or the shared null instance
Lookup(vr, this, key) ==
    IF this.type_ = "NullType" THEN ValueNull(ZeroHolder)
    ELSE LET at == FindMember(vr, this.value_.o.members_, make_key(vr, key))
         IN IF at = 0 THEN ValueNull(ZeroHolder)
            ELSE this.value_.o.members_[at].second

\* the member map with no member created for the key
MapKept(vr, members_, key) == members_

\* Object::operator[] (const string& key), key absent: emplace of the key
\* made by make_key with a Value() as its value; std::map puts it at its
\* place in the order, the unordered_map is modelled as adding it last
MapCreate(vr, members_, key) ==
    IF vr = "value.hpp" THEN MapEmplace(members_, key, ValueNull(ZeroHolder))
    ELSE Append(members_, [first |-> key, second |-> ValueNull(ZeroHolder)])

\* self_type& operator[] (const string& key), on a Null or Object Value: a
\* Null Value first becomes an empty Object; the member is found or created
LookupOrCreate(vr, this, key) ==
    LET obj == IF this.type_ = "NullType"
               THEN MoveAssign(vr, this, ValueOfType("ObjectType")).this
               ELSE this
    IN IF FindMember(vr, obj.value_.o.members_, make_key(vr, key)) # 0 THEN obj
       ELSE [obj EXCEPT !.value_.o.members_ = MapCreate(vr, @, make_key(vr, key))]

\* ------------------------------------------------------------------------
\* Numbers as text
\* ------------------------------------------------------------------------

\* decimal digits of n >= 0
RECURSIVE Digits(_)
Digits(n) ==
    IF n < 10 THEN <<DigitChars[n + 1]>>
    ELSE Digits(n \div 10) \o <<DigitChars[(n % 10) + 1]>>

\* the number a sequence of digit characters denotes
RECURSIVE NumOf(_)
NumOf(ds) ==
    IF ds = <<>> THEN 0
    ELSE 10 * NumOf(SubSeq(ds, 1, Len(ds) - 1)) + DigitVal(ds[Len(ds)])

\* os << value.asNatural(): decimal, '-' for a negative number
NaturalText(n) == IF n < 0 THEN <<"-">> \o Digits(-n) ELSE Digits(n)

\* os << value.asReal(): the default floating-point rendering (%g with six
\* significant digits; the reals of the model have at most six).  X is the
\* decimal exponent: scientific notation when X < -4 or X >= 6, otherwise
\* fixed notation without trailing zeros and without a bare '.'
RealText(r) ==
    IF r.m = 0 THEN <<"0">>
    ELSE
    LET sign == IF r.m < 0 THEN <<"-">> ELSE <<>>
        ds   == Digits(IF r.m < 0 THEN -r.m ELSE r.m)
        D    == Len(ds)
        X    == r.e + D - 1
        absX == IF X < 0 THEN -X ELSE X
    IN sign \o
       (IF X < -4 \/ X >= 6
        THEN <<ds[1]>> \o (IF D > 1 THEN <<".">> \o SubSeq(ds, 2, D) ELSE <<>>)
                \o <<"e", IF X < 0 THEN "-" ELSE "+">>
                \o (IF absX < 10 THEN <<"0">> ELSE <<>>) \o Digits(absX)
        ELSE IF r.e >= 0 THEN ds \o Repeat("0", r.e)
        ELSE IF D + r.e > 0
             THEN SubSeq(ds, 1, D + r.e) \o <<".">> \o SubSeq(ds, D + r.e + 1, D)
        ELSE <<"0", ".">> \o Repeat("0", -(D + r.e)) \o ds)

\* ------------------------------------------------------------------------
\* Value: number accessors.  num_ is a union: the member that n.type_ names
\* is the one the constructor wrote, and reading the other member reads
\* the same bits as the other type.  A result is [is, n, r]: a natural n, a
\* real r, the bits of the real r read as a natural, the bits of the
\* natural n read as a real, or undefined.
\* ------------------------------------------------------------------------

RECURSIVE Pow10(_)
Pow10(k) == IF k <= 0 THEN 1 ELSE 10 * Pow10(k - 1)

Magnitude(m) == IF m < 0 THEN -m ELSE m

\* the real is within the range of natural (fewer than 19 decimal digits)
InRange(r) == r.m = 0 \/ Len(Digits(Magnitude(r.m))) + r.e <= 18

\* static_cast<natural>(r): the fraction is discarded
Truncated(r) ==
    IF r.e >= 0 THEN r.m * Pow10(r.e)
    ELSE IF r.m >= 0 THEN r.m \div Pow10(-r.e)
    ELSE -((-r.m) \div Pow10(-r.e))

NaturalResult(n) == [is |-> "natural", n |-> n, r |-> [m |-> 0, e |-> 0]]

RealResult(r) == [is |-> "real", n |-> 0, r |-> r]

\* natural asNatural() const, on a Number Value.
\* value.hpp and jsoncxx.hpp: num_.n of a natural, static_cast<natural> of
\* num_.r otherwise.  part_000: num_.n whatever the kind.
asNatural(vr, v) ==
    IF v.value_.n.type_ = "NaturalNumber" THEN NaturalResult(v.value_.n.num_.n)
    ELSE IF vr = "part_000"
         THEN [is |-> "bits of real", n |-> 0, r |-> v.value_.n.num_.r]
    ELSE IF InRange(v.value_.n.num_.r)
         THEN NaturalResult(Truncated(v.value_.n.num_.r))
    ELSE [is |-> "undefined", n |-> 0, r |-> v.value_.n.num_.r]

\* real asReal() const, on a Number Value.
\* value.hpp and jsoncxx.hpp: num_.r of a real, static_cast<real> of num_.n
\* otherwise.  part_000: num_.r whatever the kind (the bits of 0 are those
\* of 0.0).
asReal(vr, v) ==
    IF v.value_.n.type_ = "RealNumber" THEN RealResult(v.value_.n.num_.r)
    ELSE IF vr = "part_000" /\ v.value_.n.num_.n = 0 THEN RealResult([m |-> 0, e |-> 0])
    ELSE IF vr = "part_000"
         THEN [is |-> "bits of natural", n |-> v.value_.n.num_.n, r |-> [m |-> 0, e |-> 0]]
    ELSE RealResult(NormReal(v.value_.n.num_.n, 0))

\* how many digits tok holds from position i on
RECURSIVE DigitRun(_, _)
DigitRun(tok, i) ==
    IF i <= Len(tok) /\ IsDigit(tok[i]) THEN 1 + DigitRun(tok, i + 1) ELSE 0

RECURSIVE StripZeros(_)
StripZeros(ds) ==
    IF Len(ds) > 1 /\ Head(ds) = "0" THEN StripZeros(Tail(ds)) ELSE ds

HasSign(tok) == tok # <<>> /\ tok[1] \in {"+", "-"}

IsNeg(tok) == HasSign(tok) /\ tok[1] = "-"

Unsigned(tok) == IF HasSign(tok) THEN Tail(tok) ELSE tok

\* the leading digits of a token without sign, and what follows them
IntPart(u) == SubSeq(u, 1, DigitRun(u, 1))

AfterInt(u) == SubSeq(u, DigitRun(u, 1) + 1, Len(u))

\* the magnitudes of LLONG_MAX and LLONG_MIN
LLongMax == <<"9","2","2","3","3","7","2","0","3","6","8","5","4","7","7","5","8","0","7">>

LLongMin == <<"9","2","2","3","3","7","2","0","3","6","8","5","4","7","7","5","8","0","8">>

Beyond(sig, lim) == Len(sig) > Len(lim) \/ (Len(sig) = Len(lim) /\ StrLess(lim, sig))

StoLLOf(neg, ds) ==
    IF ds = <<>> THEN [st |-> "throw", exc |-> "invalid_argument", n |-> 0]
    ELSE IF Beyond(StripZeros(ds), IF neg THEN LLongMin ELSE LLongMax)
    THEN [st |-> "throw", exc |-> "out_of_range", n |-> 0]
    ELSE [st |-> "ok", exc |-> "", n |-> IF neg THEN -NumOf(ds) ELSE NumOf(ds)]

\* std::stoll(number): an optional sign and the digits that follow it;
\* what comes after the digits is ignored.  No digit: std::invalid_argument;
\* beyond 64 bits: std::out_of_range.
StoLL(tok) == StoLLOf(IsNeg(tok), IntPart(Unsigned(tok)))

HasDot(u) == AfterInt(u) # <<>> /\ Head(AfterInt(u)) = "."

FracPart(u) ==
    IF HasDot(u) THEN SubSeq(AfterInt(u), 2, 1 + DigitRun(AfterInt(u), 2)) ELSE <<>>

AfterFrac(u) ==
    IF HasDot(u) THEN SubSeq(AfterInt(u), 2 + Len(FracPart(u)), Len(AfterInt(u)))
    ELSE AfterInt(u)

\* the exponent t denotes: 'e' or 'E', an optional sign, digits; 0 when no
\* digit follows
Exponent(t) ==
    IF t = <<>> \/ Head(t) \notin {"e", "E"} THEN 0
    ELSE IF IsNeg(Tail(t)) THEN -NumOf(IntPart(Unsigned(Tail(t))))
    ELSE NumOf(IntPart(Unsigned(Tail(t))))

\* the decimal exponent of a normalised real
DecExp(r) == r.e + Len(Digits(IF r.m < 0 THEN -r.m ELSE r.m)) - 1

StoDRange(r) ==
    IF r.m # 0 /\ (DecExp(r) > 308 \/ DecExp(r) < -307)
    THEN [st |-> "throw", exc |-> "out_of_range", r |-> [m |-> 0, e |-> 0]]
    ELSE [st |-> "ok", exc |-> "", r |-> r]

StoDOf(neg, ip, fp, ex) ==
    IF ip \o fp = <<>>
    THEN [st |-> "throw", exc |-> "invalid_argument", r |-> [m |-> 0, e |-> 0]]
    ELSE StoDRange(NormReal(IF neg THEN -NumOf(ip \o fp) ELSE NumOf(ip \o fp),
                            ex - Len(fp)))

\* std::stod(number): sign, digits, '.', digits, and an exponent when a digit
\* follows the 'e' and its sign; what comes after is ignored.  No digit in
\* the mantissa: std::invalid_argument; a magnitude no double holds:
\* std::out_of_range (the last decade is not resolved by the model).
StoD(tok) ==
    StoDOf(IsNeg(tok), IntPart(Unsigned(tok)), FracPart(Unsigned(tok)),
           Exponent(AfterFrac(Unsigned(tok))))

\* ------------------------------------------------------------------------
\* Serialization: operator<< of value.hpp
\* ------------------------------------------------------------------------

RECURSIVE Join(_, _)
Join(texts, sep) ==
    IF texts = <<>> THEN <<>>
    ELSE IF Len(texts) = 1 THEN texts[1]
    ELSE texts[1] \o sep \o Join(Tail(texts), sep)

\* friend ostream& operator << (ostream& os, const Value& value)
RECURSIVE ostream(_)
ostream(value) ==
    CASE value.type_ = "NullType"  -> <<"n", "u", "l", "l">>
      [] value.type_ = "FalseType" -> <<"f", "a", "l", "s", "e">>
      [] value.type_ = "TrueType"  -> <<"t", "r", "u", "e">>
      [] value.type_ = "ObjectType" ->
            LET o == value.value_.o.members_
                func(p) == ostream(p.first) \o <<" ", ":", " ">> \o ostream(p.second)
            IN <<"{">> \o Join([i \in DOMAIN o |-> func(o[i])], <<",", " ">>) \o <<"}">>
      [] value.type_ = "ArrayType" ->
            LET a == value.value_.a.elements_
            IN <<"[">> \o Join([i \in DOMAIN a |-> ostream(a[i])], <<",", " ">>) \o <<"]">>
      [] value.type_ = "StringType" ->
            <<"\"">> \o value.value_.s.str_ \o <<"\"">>
      [] value.type_ = "NumberType" ->
            IF value.value_.n.type_ = "NaturalNumber"
            THEN NaturalText(value.value_.n.num_.n)
            ELSE RealText(value.value_.n.num_.r)

\* ------------------------------------------------------------------------
\* Streams
\* ------------------------------------------------------------------------

ParseFlag == {"ParseDefault", "ParseInplace"}

\* char_type peek() const { return *src_; }  src is src_ - head_; the buffer
\* json is followed by its terminating NUL
peek(json, src) == IF src < Len(json) THEN json[src + 1] ELSE NUL

IsWhitespace(c) == c \in {" ", "\n", "\r", "\t"}

\* only the space character skipped
RECURSIVE SkipSpaces(_, _)
SkipSpaces(json, src) ==
    IF peek(json, src) = " " THEN SkipSpaces(json, src + 1) ELSE src

\* void SkipWhitespace(Stream& stream): the cursor after the whitespace
RECURSIVE SkipWhitespace(_, _)
SkipWhitespace(json, src) ==
    IF IsWhitespace(peek(json, src)) THEN SkipWhitespace(json, src + 1) ELSE src

\* ------------------------------------------------------------------------
\* Readers.  cx = [rd, vr, flag, json]: the reader revision, the Value
\* revision, the parse flag and the buffer.  A parse function yields
\* [st, exc, msg, val, src]: st is "ok" (val returned, live cursor at src),
\* "throw" (exception exc with message msg, live cursor left at src),
\* "hang" (the function never returns) or "abort" (an assertion failed).
\* The unions of the Values a reader builds start from ZeroHolder.
\* ------------------------------------------------------------------------

Ok(val, src) == [st |-> "ok", exc |-> "", msg |-> "", val |-> val, src |-> src]

\* JSONCXX_PARSING_ERROR(msg) throws parsing_error (a std::runtime_error);
\* src/reader.hpp throws std::runtime_error itself
Throw(cx, msg, src) ==
    [st |-> "throw",
     exc |-> IF cx.rd = "reader.hpp" THEN "runtime_error" ELSE "parsing_error",
     msg |-> msg, val |-> ValueNull(ZeroHolder), src |-> src]

\* an exception of the standard library (std::stoll, std::stod)
Raise(exc, src) ==
    [st |-> "throw", exc |-> exc, msg |-> "", val |-> ValueNull(ZeroHolder), src |-> src]

Stop(st, src) ==
    [st |-> st, exc |-> "", msg |-> "", val |-> ValueNull(ZeroHolder), src |-> src]

\* parseNull, parseTrue, parseFalse: the first character is taken, then the
\* rest of the literal is compared take by take, stopping at a mismatch
RECURSIVE MatchLiteral(_, _, _)
MatchLiteral(json, src, rest) ==
    IF rest = <<>> THEN [ok |-> TRUE, src |-> src]
    ELSE IF peek(json, src) = Head(rest) THEN MatchLiteral(json, src + 1, Tail(rest))
    ELSE [ok |-> FALSE, src |-> src + 1]

parseLiteral(cx, src, rest, val) ==
    LET m == MatchLiteral(cx.json, src + 1, rest)
    IN IF m.ok THEN Ok(val, m.src) ELSE Throw(cx, "Invalid value", m.src)

parseNull(cx, src) == parseLiteral(cx, src, <<"u", "l", "l">>, ValueNull(ZeroHolder))

parseTrue(cx, src) == parseLiteral(cx, src, <<"r", "u", "e">>, ValueOfType("TrueType"))

parseFalse(cx, src) ==
    parseLiteral(cx, src, <<"a", "l", "s", "e">>, ValueOfType("FalseType"))

IsNumberChar(c) == IsDigit(c) \/ c \in {".", "e", "E", "-", "+"}

\* the while loop of parseNumber on the copy of the stream
RECURSIVE ScanNumber(_, _)
ScanNumber(json, s) ==
    IF IsNumberChar(peek(json, s)) THEN ScanNumber(json, s + 1) ELSE s

\* std::string number(stream.src_, s.src_)
NumberToken(json, src) == SubSeq(json, src + 1, ScanNumber(json, src))

NumberNatural(c, src, s) ==
    IF c.st = "ok" THEN Ok(ValueNatural(c.n, ZeroHolder), s) ELSE Raise(c.exc, src)

NumberReal(c, src, s) ==
    IF c.st = "ok" THEN Ok(ValueReal(c.r, ZeroHolder), s) ELSE Raise(c.exc, src)

\* parseNumber: stoll when the token holds no '.', stod otherwise; the
\* live cursor moves (stream = s) only after the conversion
parseNumber(cx, src) ==
    IF \A i \in DOMAIN NumberToken(cx.json, src) : NumberToken(cx.json, src)[i] # "."
    THEN NumberNatural(StoLL(NumberToken(cx.json, src)), src, ScanNumber(cx.json, src))
    ELSE NumberReal(StoD(NumberToken(cx.json, src)), src, ScanNumber(cx.json, src))

\* the while (true) switch (s.peek()) loop of parseString.
\* src/stream.hpp and part_002: quote, NUL, backslash, otherwise take.
\* src/reader.hpp: backslash and 'u' break out of the switch without a take.
RECURSIVE ScanString(_, _)
ScanString(cx, s) ==
    IF cx.rd = "reader.hpp" /\ peek(cx.json, s) \in {"\\", "u"} THEN [k |-> "spin", s |-> s]
    ELSE IF peek(cx.json, s) = "\"" THEN [k |-> "quote", s |-> s]
    ELSE IF peek(cx.json, s) = NUL THEN [k |-> "nul", s |-> s]
    ELSE IF peek(cx.json, s) = "\\" THEN [k |-> "escape", s |-> s]
    ELSE ScanString(cx, s + 1)

\* how parseString ends; live is where the live cursor stands meanwhile
StringEnd(cx, src, live, sc) ==
    CASE sc.k = "quote" ->
            Ok(ValueString(cx.vr, SubSeq(cx.json, src + 2, sc.s), ZeroHolder), sc.s + 1)
      [] sc.k = "nul" ->
            Throw(cx, "Lacks ending quation before the the end of string", live)
      [] sc.k = "escape" -> Throw(cx, "Currently not supported!", live)
      [] sc.k = "spin" -> Stop("hang", live)

\* parseString, called with the cursor on the opening quote.
\* generic_reader copies the stream and takes the quote on the copy, and
\* with ParseInplace calls s.begin(), which asserts on a read-only stream;
\* Reader (part_002) takes the quote on the live stream and then copies it.
parseString(cx, src) ==
    IF cx.rd # "part_002" /\ cx.flag = "ParseInplace" THEN Stop("abort", src)
    ELSE StringEnd(cx, src, IF cx.rd = "part_002" THEN src + 1 ELSE src,
                   ScanString(cx, src + 1))

RECURSIVE parseValue(_, _)
RECURSIVE ArrayLoop(_, _, _)
RECURSIVE ObjectLoop(_, _, _)

\* the loop going on after any character that is not ']', the end-of-input
\* marker included
ArrayStepOn(cx, ret, s) ==
    IF peek(cx.json, s) = "]" THEN Ok(ret, s + 1)
    ELSE ArrayLoop(cx, SkipWhitespace(cx.json, s + 1), ret)

\* after an element: ',' goes round the loop, ']' returns the array
ArrayStep(cx, ret, s) ==
    CASE peek(cx.json, s) = "," -> ArrayLoop(cx, SkipWhitespace(cx.json, s + 1), ret)
      [] peek(cx.json, s) = "]" -> Ok(ret, s + 1)
      [] OTHER -> Throw(cx, "Must be a comma or ']' after an array member", s + 1)

ArrayElement(cx, ret, v) ==
    IF v.st # "ok" THEN v
    ELSE ArrayStep(cx, append(cx.vr, ret, v.val).this, SkipWhitespace(cx.json, v.src))

\* while (true) { ret.append(parseValue(...)); ... } of parseArray
ArrayLoop(cx, src, ret) == ArrayElement(cx, ret, parseValue(cx, src))

ArrayBody(cx, s) ==
    IF peek(cx.json, s) = "]" THEN Ok(ValueOfType("ArrayType"), s + 1)
    ELSE ArrayLoop(cx, s, ValueOfType("ArrayType"))

\* parseArray, called with the cursor on '['
parseArray(cx, src) == ArrayBody(cx, SkipWhitespace(cx.json, src + 1))

\* after a member: ',' goes round the loop, '}' returns the object
ObjectStep(cx, ret, s) ==
    CASE peek(cx.json, s) = "," -> ObjectLoop(cx, SkipWhitespace(cx.json, s + 1), ret)
      [] peek(cx.json, s) = "}" -> Ok(ret, s + 1)
      [] OTHER -> Throw(cx, "Must be a comma or '}' after an object member", s + 1)

\* ret.insert(std::move(key), parseValue(...))
ObjectMember(cx, ret, key, v) ==
    IF v.st # "ok" THEN v
    ELSE ObjectStep(cx, insert(cx.vr, ret, key.val, v.val).this,
                    SkipWhitespace(cx.json, v.src))

\* if (stream.take() != ':') throw ...; SkipWhitespace
ObjectColon(cx, ret, key, s) ==
    IF peek(cx.json, s) # ":"
    THEN Throw(cx, "There must be a colon after the name of object member", s + 1)
    ELSE ObjectMember(cx, ret, key, parseValue(cx, SkipWhitespace(cx.json, s + 1)))

ObjectKey(cx, ret, key) ==
    IF key.st # "ok" THEN key
    ELSE ObjectColon(cx, ret, key, SkipWhitespace(cx.json, key.src))

\* while (true) { key; ':'; ret.insert(move(key), parseValue(...)); ... }
ObjectLoop(cx, src, ret) ==
    IF peek(cx.json, src) # "\""
    THEN Throw(cx, "Name of an object member must be a string", src)
    ELSE ObjectKey(cx, ret, parseString(cx, src))

\* the loop entered without the test for an empty object
ObjectBodyLoop(cx, s) == ObjectLoop(cx, s, ValueOfType("ObjectType"))

\* if (stream.peek() == '}') { stream.take(); return ret; } and the loop
ObjectBody(cx, s) ==
    IF peek(cx.json, s) = "}" THEN Ok(ValueOfType("ObjectType"), s + 1)
    ELSE ObjectLoop(cx, s, ValueOfType("ObjectType"))

\* parseObject, called with the cursor on '{'
parseObject(cx, src) == ObjectBody(cx, SkipWhitespace(cx.json, src + 1))

\* switch (stream.peek()) of parseValue and of Reader::parse(Stream&)
Dispatch(cx, s) ==
    CASE peek(cx.json, s) = "n"  -> parseNull(cx, s)
      [] peek(cx.json, s) = "t"  -> parseTrue(cx, s)
      [] peek(cx.json, s) = "f"  -> parseFalse(cx, s)
      [] peek(cx.json, s) = "\"" -> parseString(cx, s)
      [] peek(cx.json, s) = "{"  -> parseObject(cx, s)
      [] peek(cx.json, s) = "["  -> parseArray(cx, s)
      [] OTHER -> parseNumber(cx, s)

\* parseValue of generic_reader; Reader::parse(Stream&) of part_002, which
\* skips whitespace and then dispatches the same way
parseValue(cx, src) ==
    Dispatch(cx, IF cx.rd = "part_002" THEN SkipWhitespace(cx.json, src) ELSE src)

\* what a catch clause of parse catches: src/stream.hpp catches
\* std::runtime_error&, src/reader.hpp catches std::exception&
Caught(rd, exc) ==
    \/ rd = "reader.hpp"
    \/ rd = "stream.hpp" /\ exc \in {"parsing_error", "runtime_error"}

Outcome(ret, exc, msg, root, src) ==
    [ret |-> ret, exc |-> exc, msg |-> msg, root |-> root, src |-> src]

\* what the try block of generic_reader::parse makes of a thrown exception
Handle(cx, r, root) ==
    CASE r.st = "throw" /\ Caught(cx.rd, r.exc) -> Outcome("false", r.exc, r.msg, root, r.src)
      [] r.st = "throw" -> Outcome("escaped", r.exc, r.msg, root, r.src)
      [] OTHER -> Outcome(r.st, "", "", root, r.src)

\* SkipWhitespace(stream); if (stream.peek() != '\0') throw ...; return true
RootEnd(cx, root, s) ==
    IF peek(cx.json, s) # NUL
    THEN Handle(cx, Throw(cx, "Nothig should follow the root object or array.", s), root)
    ELSE Outcome("true", "", "", root, s)

\* root = parseObject(stream, flag) or root = parseArray(stream, flag)
RootAssign(cx, root, r) ==
    IF r.st # "ok" THEN Handle(cx, r, root)
    ELSE RootEnd(cx, MoveAssign(cx.vr, root, r.val).this, SkipWhitespace(cx.json, r.src))

RootSwitch(cx, root, s) ==
    CASE peek(cx.json, s) = NUL ->
            Handle(cx, Throw(cx, "Text only contains white space(s).", s), root)
      [] peek(cx.json, s) = "{" -> RootAssign(cx, root, parseObject(cx, s))
      [] peek(cx.json, s) = "[" -> RootAssign(cx, root, parseArray(cx, s))
      [] OTHER ->
            Handle(cx, Throw(cx, "Except either an object or array at root.", s), root)

\* bool generic_reader::parse(Stream& stream, generic_value& root, ParseFlag)
parseRoot(cx, src, root) == RootSwitch(cx, root, SkipWhitespace(cx.json, src))

FileAssign(cx, root, r) ==
    CASE r.st = "ok" -> Outcome("true", "", "", MoveAssign(cx.vr, root, r.val).this, r.src)
      [] r.st = "throw" -> Outcome("escaped", r.exc, r.msg, root, r.src)
      [] OTHER -> Outcome(r.st, "", "", root, r.src)

\* bool Reader::parse(const string& filename, value_type& root) once the
\* file is read: root = parse(s); return true; nothing is caught
parseFile(cx, src, root) == FileAssign(cx, root, parseValue(cx, src))

parse(cx, src, root) ==
    IF cx.rd = "part_002" THEN parseFile(cx, src, root) ELSE parseRoot(cx, src, root)

\* ------------------------------------------------------------------------
\* What a client can observe of a Value through type(), numeric type, the
\* accessors and iteration: the live member of the union, without the cached
\* hash and without the bits of the members that are not live
\* ------------------------------------------------------------------------

RECURSIVE Live(_)
Live(v) ==
    [type_ |-> v.type_,
     value_ |->
        CASE v.type_ = "ObjectType" ->
                [ZeroHolder EXCEPT !.o.members_ =
                    [i \in DOMAIN v.value_.o.members_ |->
                        [first |-> Live(v.value_.o.members_[i].first),
                         second |-> Live(v.value_.o.members_[i].second)]]]
          [] v.type_ = "ArrayType" ->
                [ZeroHolder EXCEPT !.a.elements_ =
                    [i \in DOMAIN v.value_.a.elements_ |-> Live(v.value_.a.elements_[i])]]
          [] v.type_ = "StringType" ->
                [ZeroHolder EXCEPT !.s.str_ = v.value_.s.str_]
          [] v.type_ = "NumberType" /\ v.value_.n.type_ = "NaturalNumber" ->
                [ZeroHolder EXCEPT !.n.num_.n = v.value_.n.num_.n]
          [] v.type_ = "NumberType" ->
                [ZeroHolder EXCEPT !.n.num_.r = v.value_.n.num_.r,
                                   !.n.type_ = "RealNumber"]
          [] OTHER -> ZeroHolder]

RECURSIVE SumNodes(_, _)
\* the number of Value objects a tree holds (member names not counted)
RECURSIVE Nodes(_)
Nodes(v) ==
    CASE v.type_ = "ObjectType" ->
            1 + SumNodes([i \in DOMAIN v.value_.o.members_ |->
                            v.value_.o.members_[i].second], 1)
      [] v.type_ = "ArrayType" -> 1 + SumNodes(v.value_.a.elements_, 1)
      [] OTHER -> 1

SumNodes(vs, i) == IF i > Len(vs) THEN 0 ELSE Nodes(vs[i]) + SumNodes(vs, i + 1)

\* ------------------------------------------------------------------------
\* The free store.  Here a Value holds what the class holds: str_,
\* members_ and elements_ are addresses of cells of the store, 0 is the null
\* pointer.  A store is [cells, fault]: cells maps every allocated address
\* to its contents, fault records that a released or never allocated
\* address was read, written or released (undefined behaviour).
\* ------------------------------------------------------------------------

\* most cells allocated at one time
MaxCells == 4
\* most Values in the tree of one object of the store
MaxHeld == 3

nullptr == 0

\* the union after memset(&value_, 0, sizeof(ValueHolder))
ZeroPtrs ==
    [s |-> [str_ |-> nullptr, hash_ |-> 0],
     n |-> ZeroHolder.n,
     o |-> [members_ |-> nullptr],
     a |-> [elements_ |-> nullptr]]

\* a cell holds a string, a std::list of Values or the pairs of a map
EmptyCell == [str |-> <<>>, list |-> <<>>, map |-> <<>>]

EmptyStore == [cells |-> <<>>, fault |-> FALSE]

Allocated(s, p) == p \in DOMAIN s.cells

\* the contents at p; a released address reads as an empty cell
Cell(s, p) == IF Allocated(s, p) THEN s.cells[p] ELSE EmptyCell

\* an access to address p
Touch(s, p) == IF Allocated(s, p) THEN s ELSE [s EXCEPT !.fault = TRUE]

\* operator new: the lowest free address
FreeAddress(s) ==
    CHOOSE p \in 1..(Cardinality(DOMAIN s.cells) + 1) :
        /\ p \notin DOMAIN s.cells
        /\ \A q \in 1..(p - 1) : q \in DOMAIN s.cells

New(s, cell) ==
    [s |-> [s EXCEPT !.cells = [q \in DOMAIN s.cells \cup {FreeAddress(s)} |->
                                   IF q \in DOMAIN s.cells THEN s.cells[q] ELSE cell]],
     p |-> FreeAddress(s)]

\* operator delete
Delete(s, p) ==
    IF Allocated(s, p)
    THEN [s EXCEPT !.cells = [q \in DOMAIN s.cells \ {p} |-> s.cells[q]]]
    ELSE [s EXCEPT !.fault = TRUE]

\* a write through a pointer
Write(s, p, cell) ==
    IF Allocated(s, p) THEN [s EXCEPT !.cells[p] = cell]
    ELSE [s EXCEPT !.fault = TRUE]

\* the Values a map holds, keys and mapped values in iteration order
MemberValues(map) ==
    [i \in 1..(2 * Len(map)) |->
        IF i % 2 = 1 THEN map[(i + 1) \div 2].first ELSE map[i \div 2].second]

\* the pairs made of such a sequence
Members(vs) ==
    [i \in 1..(Len(vs) \div 2) |-> [first |-> vs[2 * i - 1], second |-> vs[2 * i]]]

\* the address a Value owns, by its type
Owned(v) ==
    CASE v.type_ = "ObjectType" -> v.value_.o.members_
      [] v.type_ = "ArrayType" -> v.value_.a.elements_
      [] v.type_ = "StringType" -> v.value_.s.str_
      [] OTHER -> nullptr

\* the Values held directly in the container a Value owns
Held(s, v) ==
    CASE v.type_ = "ObjectType" -> MemberValues(Cell(s, Owned(v)).map)
      [] v.type_ = "ArrayType" -> Cell(s, Owned(v)).list
      [] OTHER -> <<>>

\* the Value with every pointer replaced by what it points to
RECURSIVE StoreValue(_, _)
StoreValue(s, v) ==
    [type_ |-> v.type_,
     value_ |->
        [s |-> [str_ |-> IF v.type_ = "StringType" THEN Cell(s, Owned(v)).str ELSE <<>>,
                hash_ |-> v.value_.s.hash_],
         n |-> v.value_.n,
         o |-> [members_ |-> IF v.type_ = "ObjectType"
                             THEN Members([i \in DOMAIN Held(s, v) |->
                                             StoreValue(s, Held(s, v)[i])])
                             ELSE <<>>],
         a |-> [elements_ |-> IF v.type_ = "ArrayType"
                              THEN [i \in DOMAIN Held(s, v) |->
                                      StoreValue(s, Held(s, v)[i])]
                              ELSE <<>>]]]

\* what the accessors and iteration show of a Value in the store
View(s, v) == Live(StoreValue(s, v))

\* the addresses reachable from a Value
RECURSIVE Reach(_, _)
Reach(s, v) ==
    IF Owned(v) = nullptr \/ v.type_ \notin {"ObjectType", "ArrayType", "StringType"}
    THEN {}
    ELSE {Owned(v)} \cup UNION {Reach(s, Held(s, v)[i]) : i \in DOMAIN Held(s, v)}

\* ~Value() and clear() on the store: the Values held are destroyed, then
\* the container is deleted
RECURSIVE StoreDestroy(_, _)
RECURSIVE StoreDestroyAll(_, _)
StoreDestroyAll(s, vs) ==
    IF vs = <<>> THEN s ELSE StoreDestroyAll(StoreDestroy(s, Head(vs)), Tail(vs))

StoreDestroy(s, v) ==
    IF Owned(v) = nullptr THEN s
    ELSE Delete(StoreDestroyAll(Touch(s, Owned(v)), Held(s, v)), Owned(v))

\* void clear(), the Value it leaves
Cleared(v) ==
    IF v.type_ \in {"ArrayType", "ObjectType", "StringType"}
    THEN [type_ |-> "NullType", value_ |-> ZeroPtrs]
    ELSE v

StoreClear(s, v) == [s |-> StoreDestroy(s, v), v |-> Cleared(v)]

\* the Value that owns address p with the type and hash of other
Owning(other, junk, p) ==
    [type_ |-> other.type_,
     value_ |->
        CASE other.type_ = "ObjectType" -> [junk EXCEPT !.o.members_ = p]
          [] other.type_ = "ArrayType" -> [junk EXCEPT !.a.elements_ = p]
          [] OTHER -> [junk EXCEPT !.s = [str_ |-> p, hash_ |-> other.value_.s.hash_]]]

\* the cell of a container of the type of v that holds the Values vs
CellOf(v, vs) ==
    CASE v.type_ = "ObjectType" -> [EmptyCell EXCEPT !.map = Members(vs)]
      [] OTHER -> [EmptyCell EXCEPT !.list = vs]

\* Value(const Value& other): a new container, and a copy of every Value
\* the container of other holds
RECURSIVE StoreCopy(_, _, _)
RECURSIVE StoreCopyAll(_, _, _)
StoreCopied(r, rest, acc) == StoreCopyAll(r.s, rest, Append(acc, r.v))

StoreCopyAll(s, vs, acc) ==
    IF vs = <<>> THEN [s |-> s, vs |-> acc]
    ELSE StoreCopied(StoreCopy(s, Head(vs), ZeroPtrs), Tail(vs), acc)

StoreFilled(other, junk, p, c) ==
    [s |-> Write(c.s, p, CellOf(other, c.vs)), v |-> Owning(other, junk, p)]

\* a container of its own whose Values are those of other, pointers and all
StoreCopyShallow(other, junk, held, n) ==
    StoreFilled(other, junk, n.p, [s |-> n.s, vs |-> held])

StoreCopyInto(other, junk, held, n) ==
    StoreFilled(other, junk, n.p, StoreCopyAll(n.s, held, <<>>))

\* new string(*(other.value_.s.str_))
StoreCopyString(other, junk, n) == [s |-> n.s, v |-> Owning(other, junk, n.p)]

StoreCopy(s, other, junk) ==
    CASE other.type_ \in {"ObjectType", "ArrayType"} ->
            StoreCopyInto(other, junk, Held(s, other), New(Touch(s, Owned(other)), EmptyCell))
      [] other.type_ = "StringType" ->
            StoreCopyString(other, junk,
                            New(Touch(s, Owned(other)),
                                [EmptyCell EXCEPT !.str = Cell(s, Owned(other)).str]))
      [] other.type_ = "NumberType" ->
            [s |-> s, v |-> [type_ |-> "NumberType",
                             value_ |-> [junk EXCEPT !.n = other.value_.n]]]
      [] OTHER -> [s |-> s, v |-> [type_ |-> other.type_, value_ |-> junk]]

\* Value& operator= (const Value& other), this and other distinct objects:
\* clear() (the destructor in jsoncxx.hpp and part_000), then the copy
\* constructor in place
StoreCopyAssign(s, this, other) ==
    StoreCopy(StoreDestroy(s, this), other, Cleared(this).value_)

\* Value& operator= (Value&& other), this and other distinct objects:
\* clear(), type_ = other.type_, std::swap(value_, other.value_),
\* other.type_ = NullType
StoreMoveAssign(s, this, other) ==
    [s |-> StoreDestroy(s, this),
     v |-> [type_ |-> other.type_, value_ |-> other.value_],
     other |-> [type_ |-> "NullType", value_ |-> Cleared(this).value_]]

\* what the read of a Value in a released container yields: the bytes it
\* held, or those of whatever took their place
Released == {"stale", "zero"}

\* this = other, with other the i-th element of the Array this: this and
\* other are distinct objects, clear() destroys the elements and deletes
\* the list, and the copy constructor then reads other in the released list
StoreAssignElement(s, this, i, u) ==
    IF u = "stale"
    THEN StoreCopy(Touch(StoreDestroy(s, this), Owned(this)), Held(s, this)[i],
                   Cleared(this).value_)
    ELSE [s |-> Touch(StoreDestroy(s, this), Owned(this)), v |-> Cleared(this)]

\* this = std::move(other), with other the i-th element of the Array this:
\* after clear() the type and the value_ of other are read, and written,
\* in the released list
StoreMoveElement(s, this, i, u) ==
    [s |-> Touch(StoreDestroy(s, this), Owned(this)),
     v |-> IF u = "stale" THEN Held(s, this)[i] ELSE Cleared(this)]

\* ------------------------------------------------------------------------
\* The program: a client of the library.
\*   build   the revisions compiled together: [reader, value]
\*   doc     a Value the client builds and queries
\*   other   a second, distinct Value
\*   json    the text buffer a stream reads
\*   stream  the stream's cursor (tell())
\*   root    the Value handed to parse
\*   ret     how the last call of parse ended, and the root it was given
\*   out     the last operation on doc and other, its arguments and result
\*   mem     the free store and the two Values a and b that point into it;
\*           at names the one the last operation was applied to, twin says
\*           that one was made as a copy of the other and neither has been
\*           constructed anew or cleared since
\* Assertions are those of a build without NDEBUG.
\* ------------------------------------------------------------------------

VARIABLES build, doc, other, json, stream, root, ret, out, mem, nullobj

vars == <<build, doc, other, json, stream, root, ret, out, mem, nullobj>>

\* the operator<< of jsoncxx.hpp and of part_000, and the Writer of part_003,
\* take std::next(begin, size() - 1) and the last entry without asking
\* whether the container is empty: what the read of an entry that does not
\* exist yields is undefined, the process ends or some text is printed
PastEnd ==
    {[crash |-> TRUE, text |-> <<>>], [crash |-> FALSE, text |-> <<>>],
     [crash |-> FALSE, text |-> <<"n", "u", "l", "l">>]}

\* value holds an empty Array or Object, at any depth
RECURSIVE HasEmpty(_)
HasEmpty(value) ==
    CASE value.type_ = "ArrayType" ->
            \/ value.value_.a.elements_ = <<>>
            \/ \E i \in DOMAIN value.value_.a.elements_ :
                   HasEmpty(value.value_.a.elements_[i])
      [] value.type_ = "ObjectType" ->
            \/ value.value_.o.members_ = <<>>
            \/ \E i \in DOMAIN value.value_.o.members_ :
                   HasEmpty(value.value_.o.members_[i].second)
      [] OTHER -> FALSE

\* friend ostream& operator << (ostream& stream, const Value& value) of
\* jsoncxx.hpp and part_000: no test of empty(); g is what the entry
\* before the first one prints
RECURSIVE ostreamOlder(_, _)
ostreamOlder(value, g) ==
    CASE value.type_ = "NullType"  -> <<"n", "u", "l", "l">>
      [] value.type_ = "FalseType" -> <<"f", "a", "l", "s", "e">>
      [] value.type_ = "TrueType"  -> <<"t", "r", "u", "e">>
      [] value.type_ = "ObjectType" ->
            IF value.value_.o.members_ = <<>> THEN <<"{">> \o g.text \o <<"}">>
            ELSE <<"{">>
                 \o Join([i \in DOMAIN value.value_.o.members_ |->
                            ostreamOlder(value.value_.o.members_[i].first, g)
                            \o <<" ", ":", " ">>
                            \o ostreamOlder(value.value_.o.members_[i].second, g)],
                         <<",", " ">>)
                 \o <<"}">>
      [] value.type_ = "ArrayType" ->
            IF value.value_.a.elements_ = <<>> THEN <<"[">> \o g.text \o <<"]">>
            ELSE <<"[">>
                 \o Join([i \in DOMAIN value.value_.a.elements_ |->
                            ostreamOlder(value.value_.a.elements_[i], g)], <<",", " ">>)
                 \o <<"]">>
      [] value.type_ = "StringType" ->
            <<"\"">> \o value.value_.s.str_ \o <<"\"">>
      [] value.type_ = "NumberType" ->
            IF value.value_.n.type_ = "NaturalNumber"
            THEN NaturalText(value.value_.n.num_.n)
            ELSE RealText(value.value_.n.num_.r)

\* Writer& operator << (const Value<Encoding>& value) of part_003, with
\* writeNull, writeBoolean, writeNumber, writeString, writeArray, writeObject
RECURSIVE Writer(_, _)
Writer(value, g) ==
    CASE value.type_ = "NullType"  -> <<"n", "u", "l", "l">>
      [] value.type_ = "FalseType" -> <<"f", "a", "l", "s", "e">>
      [] value.type_ = "TrueType"  -> <<"t", "r", "u", "e">>
      [] value.type_ = "ObjectType" ->
            IF value.value_.o.members_ = <<>> THEN <<"{">> \o g.text \o <<"}">>
            ELSE <<"{">>
                 \o Join([i \in DOMAIN value.value_.o.members_ |->
                            Writer(value.value_.o.members_[i].first, g)
                            \o <<":">>
                            \o Writer(value.value_.o.members_[i].second, g)],
                         <<",">>)
                 \o <<"}">>
      [] value.type_ = "ArrayType" ->
            IF value.value_.a.elements_ = <<>> THEN <<"[">> \o g.text \o <<"]">>
            ELSE <<"[">>
                 \o Join([i \in DOMAIN value.value_.a.elements_ |->
                            Writer(value.value_.a.elements_[i], g)], <<",">>)
                 \o <<"]">>
      [] value.type_ = "StringType" ->
            <<"\"">> \o value.value_.s.str_ \o <<"\"">>
      [] value.type_ = "NumberType" ->
            IF value.value_.n.type_ = "NaturalNumber"
            THEN NaturalText(value.value_.n.num_.n)
            ELSE RealText(value.value_.n.num_.r)

\* the outcome of a serialization that may have read past the entries
Emitted(past, g, text) ==
    IF ~past THEN [st |-> "ok", text |-> text]
    ELSE IF g.crash THEN [st |-> "crash", text |-> <<>>]
    ELSE [st |-> "undefined", text |-> text]

\* what std::map does with a key when operator< has read the hash_ and the
\* str_ of a Value that is no String: the read is of the inactive member of
\* the union, the order it yields is undefined
KeyRead == {"crash", "front", "back", "kept"}

StringKeys(members_) == \A i \in DOMAIN members_ : members_[i].first.type_ = "StringType"

\* insert(self_type&& key, self_type&& value) with a key of any type.
\* value.hpp: emplace, no test of the type of key; an empty map stores the
\* pair without a comparison, a map with members compares through operator<.
\* jsoncxx.hpp, part_000: Object::operator[] (key_type&) asserts
\* key.type() == StringType.
insertKey(vr, this, key, value, u) ==
    IF key.type_ = "StringType" /\ StringKeys(this.value_.o.members_)
    THEN [this |-> insert(vr, this, key, value).this, st |-> "ok"]
    ELSE IF vr # "value.hpp" THEN [this |-> this, st |-> "abort"]
    ELSE IF this.value_.o.members_ = <<>>
    THEN [this |-> [this EXCEPT !.value_.o.members_ =
                               <<[first |-> key, second |-> value]>>],
          st |-> "ok"]
    ELSE CASE u = "crash" -> [this |-> this, st |-> "crash"]
           [] u = "kept"  -> [this |-> this, st |-> "undefined"]
           [] u = "front" ->
                [this |-> [this EXCEPT !.value_.o.members_ =
                                   <<[first |-> key, second |-> value]>> \o @],
                 st |-> "undefined"]
           [] u = "back" ->
                [this |-> [this EXCEPT !.value_.o.members_ =
                                   Append(@, [first |-> key, second |-> value])],
                 st |-> "undefined"]

\* reader.hpp and stream.hpp include the generic_value of part_000; the
\* Reader of part_002 includes value.hpp, and its predecessor jsoncxx.hpp
Builds ==
    {[reader |-> "reader.hpp", value |-> "part_000"],
     [reader |-> "stream.hpp", value |-> "part_000"],
     [reader |-> "part_002",   value |-> "jsoncxx.hpp"],
     [reader |-> "part_002",   value |-> "value.hpp"]}

NoRet ==
    [ret |-> "none", exc |-> "", msg |-> "", flag |-> "ParseDefault",
     root0 |-> ValueNull(ZeroHolder)]

NoOut ==
    [op |-> "none", index |-> 0, key |-> <<>>, st |-> "", exc |-> "", msg |-> "",
     ref |-> ValueNull(ZeroHolder), this0 |-> ValueNull(ZeroHolder), text |-> <<>>,
     num |-> [is |-> "", n |-> 0, r |-> [m |-> 0, e |-> 0]]]

Did(op) == [NoOut EXCEPT !.op = op]

NoMem ==
    [store |-> EmptyStore, a |-> ValueNull(ZeroPtrs), b |-> ValueNull(ZeroPtrs),
     at |-> "a", twin |-> FALSE]

Init ==
    /\ build \in Builds
    /\ doc = ValueNull(ZeroHolder)
    /\ other = ValueNull(ZeroHolder)
    /\ json = <<>>
    /\ stream = 0
    /\ root = ValueNull(ZeroHolder)
    /\ ret = NoRet
    /\ out = NoOut
    /\ mem = NoMem
    /\ nullobj = ValueNull(ZeroHolder)

\* the client works on its Values before it turns to a text
Building == json = <<>> /\ ret.ret = "none"

Budget == Nodes(doc) + Nodes(other)

\* the constructor calls of the client, by name
Make(vr, k) ==
    CASE k = "Value()" -> ValueNull(ZeroHolder)
      [] k = "Value(false)" -> ValueBool(FALSE, ZeroHolder)
      [] k = "Value(true)" -> ValueBool(TRUE, ZeroHolder)
      [] k = "Value(true)*" -> ValueBool(TRUE, JunkHolder)
      [] k = "Value(0)" -> ValueNatural(0, ZeroHolder)
      [] k = "Value(12)" -> ValueNatural(12, ZeroHolder)
      [] k = "Value(-7)" -> ValueNatural(-7, ZeroHolder)
      [] k = "Value(0.5)" -> ValueReal([m |-> 5, e |-> -1], ZeroHolder)
      [] k = "Value(2.0)" -> ValueReal([m |-> 2, e |-> 0], ZeroHolder)
      [] k = "Value(-2.5)" -> ValueReal([m |-> -25, e |-> -1], ZeroHolder)
      [] k = "Value(1e20)" -> ValueReal([m |-> 1, e |-> 20], ZeroHolder)
      [] k = "Value(\"\")" -> ValueString(vr, <<>>, ZeroHolder)
      [] k = "Value(\"a\")" -> ValueString(vr, <<"a">>, ZeroHolder)
      [] k = "Value(StringType)" -> ValueOfType("StringType")
      [] k = "Value(ArrayType)" -> ValueOfType("ArrayType")
      [] k = "Value(ObjectType)" -> ValueOfType("ObjectType")
      [] k = "[12]" -> append(vr, ValueOfType("ArrayType"), ValueNatural(12, ZeroHolder)).this

\* Values as the constructors leave them, one of every type; the starred
\* one has a union that holds what the storage held before
Seeds ==
    {"Value()", "Value(false)", "Value(true)", "Value(true)*", "Value(12)",
     "Value(\"a\")", "Value(ArrayType)", "Value(ObjectType)"}

\* the temporaries appended and inserted
Elements == {"Value(12)", "Value(\"a\")", "Value(true)*"}

\* the scalars and empty containers documents are built from
Scalars ==
    {"Value()", "Value(false)", "Value(true)", "Value(0)", "Value(12)", "Value(-7)",
     "Value(0.5)", "Value(2.0)", "Value(1e20)", "Value(\"\")", "Value(\"a\")",
     "Value(ArrayType)", "Value(ObjectType)"}

\* Values a caller may hand to parse as root
RootSeeds == {"Value()", "Value(true)", "[12]"}

Keys == {<<"a">>, <<"b">>}

\* the constructors on the store, by name: [s, v]
StoreOwner(type, hash, n) ==
    [s |-> n.s,
     v |-> Owning([type_ |-> type, value_ |-> [ZeroPtrs EXCEPT !.s.hash_ = hash]],
                  ZeroPtrs, n.p)]

StoreString(vr, s, str) ==
    StoreOwner("StringType", IF vr = "value.hpp" THEN StdHash(str) ELSE 0,
               New(s, [EmptyCell EXCEPT !.str = str]))

StoreMake(vr, s, k) ==
    CASE k = "Value(\"a\")" -> StoreString(vr, s, <<"a">>)
      [] k = "Value(\"b\")" -> StoreString(vr, s, <<"b">>)
      [] k \in {"Value(ArrayType)", "Value(ObjectType)"} ->
            StoreOwner(Make(vr, k).type_, 0, New(s, EmptyCell))
      [] OTHER -> [s |-> s, v |-> [type_ |-> Make(vr, k).type_,
                                   value_ |-> [ZeroPtrs EXCEPT !.n = Make(vr, k).value_.n]]]

\* elements_->push_back(std::move(value)): the element takes what value
\* owned, and value is left Null
StorePushBack(s, this, value) ==
    [s |-> Write(s, Owned(this),
                 [Cell(s, Owned(this)) EXCEPT !.list = Append(@, value)]),
     v |-> this]

\* self_type& append(self_type&& value), on a Null or Array Value: a Null
\* Value first becomes an empty Array
StoreAppend(s, this, value) ==
    IF this.type_ = "NullType"
    THEN StorePushBack(StoreMake("value.hpp", s, "Value(ArrayType)").s,
                       StoreMake("value.hpp", s, "Value(ArrayType)").v, value)
    ELSE StorePushBack(s, this, value)

\* self_type& append(const self_type& value): the element is a copy
StoreAppendCopied(this, r) == StoreAppend(r.s, this, r.v)

StoreAppendCopy(s, this, value) ==
    StoreAppendCopied(this, StoreCopy(s, value, ZeroPtrs))

InsertAt(seq, k, x) == SubSeq(seq, 1, k) \o <<x>> \o SubSeq(seq, k + 1, Len(seq))

\* the number of members whose key is less than key
Rank(members_, key) ==
    Cardinality({i \in DOMAIN members_ : KeyLess(members_[i].first, key)})

StoreMapPut(s, this, k, key, value) ==
    Write(s, Owned(this),
          [Cell(s, Owned(this)) EXCEPT
              !.map = InsertAt(@, k, [first |-> key, second |-> value])])

StoreSetSecond(this, at, r) ==
    Write(r.s, Owned(this), [Cell(r.s, Owned(this)) EXCEPT !.map[at].second = r.v])

StorePutCopied(this, key, r) ==
    StoreMapPut(r.s, this, Len(Cell(r.s, Owned(this)).map), key, r.v)

\* the member of this whose key is equivalent to key, or 0
StoreFind(vr, s, this, key) ==
    FindMember(vr, StoreValue(s, this).value_.o.members_, StoreValue(s, key))

\* key.value_.s.hash_ = std::hash<string>()(*key.value_.s.str_)
Hashed(s, key) == [key EXCEPT !.value_.s.hash_ = StdHash(Cell(s, Owned(key)).str)]

\* void insert(self_type&& key, self_type&& value) on an Object Value, key
\* and value temporaries that die with the call; the store it leaves.
\* value.hpp: emplace moves the pair in, or drops it when the key is there.
\* jsoncxx.hpp and part_000: operator[] finds or creates the member (moving
\* the key in), and the copy assignment gives it a copy of value.
StoreInsert(vr, s, this, key, value) ==
    IF vr = "value.hpp"
    THEN IF StoreFind(vr, s, this, key) # 0
         THEN StoreDestroyAll(s, <<key, value>>)
         ELSE StoreMapPut(s, this,
                          Rank(StoreValue(s, this).value_.o.members_, StoreValue(s, key)),
                          key, value)
    ELSE IF StoreFind(vr, s, this, Hashed(s, key)) # 0
         THEN StoreDestroyAll(
                StoreSetSecond(this, StoreFind(vr, s, this, Hashed(s, key)),
                    StoreCopyAssign(s,
                        Cell(s, Owned(this)).map[StoreFind(vr, s, this, Hashed(s, key))].second,
                        value)),
                <<key, value>>)
         ELSE StoreDestroy(
                StorePutCopied(this, Hashed(s, key), StoreCopy(s, value, ZeroPtrs)),
                value)

\* Value doc(...), in place of the former doc
NewDoc(k) ==
    /\ Building
    /\ doc' = Make(build.value, k)
    /\ out' = Did("construct")
    /\ UNCHANGED <<nullobj, mem, build, other, json, stream, root, ret>>

\* Value other(...), in place of the former other
NewOther(k) ==
    /\ Building
    /\ other' = Make(build.value, k)
    /\ out' = Did("construct")
    /\ UNCHANGED <<nullobj, mem, build, doc, json, stream, root, ret>>

\* doc.append(Value(...))
AppendTemp(k) ==
    /\ Building
    /\ doc.type_ \in {"NullType", "ArrayType"}
    /\ Budget + 1 <= MaxNodes
    /\ doc' = append(build.value, doc, Make(build.value, k)).this
    /\ out' = Did("append")
    /\ UNCHANGED <<nullobj, mem, build, other, json, stream, root, ret>>

\* doc.append(std::move(other))
AppendMove ==
    /\ Building
    /\ doc.type_ \in {"NullType", "ArrayType"}
    /\ Budget + 1 <= MaxNodes
    /\ LET r == append(build.value, doc, other)
       IN doc' = r.this /\ other' = r.value
    /\ out' = Did("append_move")
    /\ UNCHANGED <<nullobj, mem, build, json, stream, root, ret>>

\* doc.append(other), the const reference overload
AppendCopy ==
    /\ Building
    /\ doc.type_ \in {"NullType", "ArrayType"}
    /\ Budget + Nodes(other) <= MaxNodes
    /\ doc' = appendCopy(build.value, doc, other)
    /\ out' = Did("append_copy")
    /\ UNCHANGED <<nullobj, mem, build, other, json, stream, root, ret>>

\* doc.insert(Value(key), Value(...)) on an Object
InsertTemp(key, k) ==
    /\ Building
    /\ doc.type_ = "ObjectType"
    /\ Budget + 1 <= MaxNodes
    /\ doc' = insert(build.value, doc, ValueString(build.value, key, ZeroHolder),
                     Make(build.value, k)).this
    /\ out' = [Did("insert") EXCEPT !.key = key, !.ref = Make(build.value, k),
                                    !.this0 = doc]
    /\ UNCHANGED <<nullobj, mem, build, other, json, stream, root, ret>>

\* doc.insert(Value(key), std::move(other)) on an Object
InsertMove(key) ==
    /\ Building
    /\ doc.type_ = "ObjectType"
    /\ Budget + 1 <= MaxNodes
    /\ LET r == insert(build.value, doc, ValueString(build.value, key, ZeroHolder), other)
       IN doc' = r.this /\ other' = r.value
    /\ out' = [Did("insert") EXCEPT !.key = key, !.ref = other, !.this0 = doc]
    /\ UNCHANGED <<nullobj, mem, build, json, stream, root, ret>>

\* doc[key] on a const Null or Object Value: st tells whether the reference
\* returned is to a member or to the shared null instance
LookupConst(key) ==
    /\ Building
    /\ doc.type_ \in {"NullType", "ObjectType"}
    /\ out' = [Did("lookup") EXCEPT
                 !.key = key,
                 !.st = IF doc.type_ = "ObjectType" /\
                           FindMember(build.value, doc.value_.o.members_,
                                      make_key(build.value, key)) # 0
                        THEN "member" ELSE "null()",
                 !.ref = Lookup(build.value, doc, key),
                 !.this0 = doc]
    /\ UNCHANGED <<nullobj, mem, build, doc, other, json, stream, root, ret>>

\* doc[key] on a Null or Object Value that is not const
LookupMutable(key) ==
    /\ Building
    /\ doc.type_ \in {"NullType", "ObjectType"}
    /\ Budget + 1 <= MaxNodes
    /\ doc' = LookupOrCreate(build.value, doc, key)
    /\ out' = [Did("lookup or create") EXCEPT
                 !.key = key, !.st = "member",
                 !.ref = Lookup(build.value, LookupOrCreate(build.value, doc, key), key),
                 !.this0 = doc]
    /\ UNCHANGED <<nullobj, mem, build, other, json, stream, root, ret>>

\* doc[index] on an Array: operator[] (size_type) asserts the type and
\* returns value_.a[index]; when a reference is returned, ref is the element
\* it designates, or what lies past the end of the list
Index(index) ==
    /\ Building
    /\ doc.type_ = "ArrayType"
    /\ LET r == ArrayIndex(doc.value_.a.elements_, index)
       IN out' = [Did("index") EXCEPT
                    !.index = index, !.st = r.st, !.exc = r.exc, !.msg = r.msg,
                    !.ref = IF r.at \in DOMAIN doc.value_.a.elements_
                            THEN doc.value_.a.elements_[r.at]
                            ELSE ValueNull(JunkHolder),
                    !.this0 = doc]
    /\ UNCHANGED <<nullobj, mem, build, doc, other, json, stream, root, ret>>

\* doc = std::move(other)
MoveAssignDoc ==
    /\ Building
    /\ LET r == MoveAssign(build.value, doc, other)
       IN doc' = r.this /\ other' = r.other
    /\ out' = Did("move_assign")
    /\ UNCHANGED <<nullobj, mem, build, json, stream, root, ret>>

\* other = std::move(doc)
MoveAssignOther ==
    /\ Building
    /\ LET r == MoveAssign(build.value, other, doc)
       IN other' = r.this /\ doc' = r.other
    /\ out' = Did("move_assign_other")
    /\ UNCHANGED <<nullobj, mem, build, json, stream, root, ret>>

\* Value doc(std::move(other)), in place of the former doc; junk is what the
\* storage of the new object held
MoveConstructDoc(junk) ==
    /\ Building
    /\ LET r == MoveConstruct(build.value, other, junk)
       IN doc' = r.this /\ other' = r.other
    /\ out' = Did("move_construct")
    /\ UNCHANGED <<nullobj, mem, build, json, stream, root, ret>>

\* doc = other
CopyAssignDoc ==
    /\ Building
    /\ 2 * Nodes(other) <= MaxNodes
    /\ doc' = CopyAssign(doc, other)
    /\ out' = Did("copy_assign")
    /\ UNCHANGED <<nullobj, mem, build, other, json, stream, root, ret>>

\* doc.clear()
Clear ==
    /\ Building
    /\ doc' = clear(doc)
    /\ out' = Did("clear")
    /\ UNCHANGED <<nullobj, mem, build, other, json, stream, root, ret>>

\* the numbers this client constructs
Numbers ==
    {"Value(0)", "Value(12)", "Value(-7)", "Value(0.5)", "Value(2.0)",
     "Value(-2.5)", "Value(1e20)"}

\* doc.asNatural() on a Number
AsNatural ==
    /\ Building
    /\ doc.type_ = "NumberType"
    /\ out' = [Did("asNatural") EXCEPT !.num = asNatural(build.value, doc)]
    /\ UNCHANGED <<nullobj, mem, build, doc, other, json, stream, root, ret>>

\* doc.asReal() on a Number
AsReal ==
    /\ Building
    /\ doc.type_ = "NumberType"
    /\ out' = [Did("asReal") EXCEPT !.num = asReal(build.value, doc)]
    /\ UNCHANGED <<nullobj, mem, build, doc, other, json, stream, root, ret>>

\* ------------------------------------------------------------------------
\* Texts and parsing
\* ------------------------------------------------------------------------

TypeChars == {"[", "]", "{", "}", "\"", "\\", "1", "-", " ", "x"}

Samples ==
    {<<"{", "\"", "a", "\"", ":", "1", ",", "\"", "a", "\"", ":", "2", "}">>,
     <<"{", "\"", "a", "\"", ":", "1", ",", "\"", "b", "\"", ":", "2", "}">>,
     <<"{", "}", " ", "x">>,
     <<"[", "]", " ", "[", "]">>,
     <<"[", "\"", "a", "\\", "b", "\"", "]">>,
     <<"{", "\"", "\\", "\"", ":", "1", "}">>,
     <<"[", "\"", "u", "\"", "]">>,
     <<"[", "1", "-", "2", "]">>,
     <<"[", "1", "e", "2", "]">>,
     <<"[", "1", ",", "]">>,
     <<"[", "t", "r", "u", "e", ",", " ", "n", "u", "l", "l", "]">>,
     <<"[", "f", "a", "l", "s", "x", "]">>,
     <<" ", "3", ".", "1", "\n">>,
     <<"\"", "a", "\"">>,
     <<"t", "r", "u", "e">>,
     <<"\t", "{", "\n", "\r", "}", " ">>,
     <<"\r", "\n", "[", "\t", " ", "]", "\n">>}

\* Value root(...), before a text is prepared
SetRoot(k) ==
    /\ Building
    /\ root' = Make(build.value, k)
    /\ UNCHANGED <<nullobj, mem, build, doc, other, json, stream, ret, out>>

\* the text grows by one character
Type(c) ==
    /\ ret.ret = "none"
    /\ Len(json) < MaxLen
    /\ json' = Append(json, c)
    /\ UNCHANGED <<nullobj, mem, build, doc, other, stream, root, ret, out>>

\* the text is one of the samples
LoadSample(text) ==
    /\ Building
    /\ json' = text
    /\ UNCHANGED <<nullobj, mem, build, doc, other, stream, root, ret, out>>

\* what a call of parse leaves behind
Parsed(flag, r) ==
    /\ root' = r.root
    /\ stream' = r.src
    /\ ret' = [ret |-> r.ret, exc |-> r.exc, msg |-> r.msg, flag |-> flag, root0 |-> root]

\* a stream over json, then reader.parse(stream, root, flag); Reader of
\* part_002 takes no flag
Parse(flag) ==
    /\ ret.ret = "none"
    /\ build.reader = "part_002" => flag = "ParseDefault"
    /\ Parsed(flag, parse([rd |-> build.reader, vr |-> build.value, flag |-> flag,
                           json |-> json], stream, root))
    /\ UNCHANGED <<nullobj, mem, build, doc, other, json, out>>

\* os << doc of value.hpp, the text kept as the next input
Serialize ==
    /\ Building
    /\ build.value = "value.hpp"
    /\ json' = ostream(doc)
    /\ out' = IF out.op = "adopt" THEN [Did("reserialize") EXCEPT !.text = out.text]
              ELSE Did("serialize")
    /\ UNCHANGED <<nullobj, mem, build, doc, other, stream, root, ret>>

\* Value t(ArrayType); t.append(std::move(doc)); doc = std::move(t)
WrapArray ==
    /\ Building
    /\ Budget + 1 <= MaxNodes
    /\ doc' = MoveAssign(build.value, doc,
                         append(build.value, ValueOfType("ArrayType"), doc).this).this
    /\ out' = Did("wrap")
    /\ UNCHANGED <<nullobj, mem, build, other, json, stream, root, ret>>

\* Value t(ObjectType); t.insert(Value(key), std::move(doc)); doc = std::move(t)
WrapObject(key) ==
    /\ Building
    /\ Budget + 1 <= MaxNodes
    /\ doc' = MoveAssign(build.value, doc,
                         insert(build.value, ValueOfType("ObjectType"),
                                ValueString(build.value, key, ZeroHolder), doc).this).this
    /\ out' = Did("wrap")
    /\ UNCHANGED <<nullobj, mem, build, other, json, stream, root, ret>>

\* after a successful parse: doc = std::move(root); the text is dropped and
\* the next parse is handed a new Value
Adopt ==
    /\ ret.ret = "true"
    /\ doc' = MoveAssign(build.value, doc, root).this
    /\ root' = ValueNull(ZeroHolder)
    /\ json' = <<>>
    /\ stream' = 0
    /\ ret' = NoRet
    /\ out' = [Did("adopt") EXCEPT !.text = json]
    /\ UNCHANGED <<nullobj, mem, build, other>>

\* ------------------------------------------------------------------------
\* Specifications
\* ------------------------------------------------------------------------

\* ------------------------------------------------------------------------
\* A client of Values in the free store: a and b are two distinct objects.
\* ------------------------------------------------------------------------

Names == {"a", "b"}

Twin(x) == IF x = "a" THEN "b" ELSE "a"

\* the temporaries this client appends and inserts
Temps == {"Value(12)", "Value(ArrayType)"}

\* what this client constructs a and b as
News == Temps \cup {"Value(\"a\")", "Value(ObjectType)"}

KeyTemps == {"Value(\"a\")", "Value(\"b\")"}

\* x and the store after an operation that returned [s, v]
MemSet(x, r) == [mem EXCEPT ![x] = r.v, !.store = r.s, !.at = x]

\* the next state is within the bounds of the model
Within ==
    /\ Cardinality(DOMAIN mem'.store.cells) <= MaxCells
    /\ \A x \in Names : Nodes(View(mem'.store, mem'[x])) <= MaxHeld

StoreAppendMade(this, t) == StoreAppend(t.s, this, t.v)

StoreInsertMade(vr, this, tk, tv) == StoreInsert(vr, tv.s, this, tk.v, tv.v)

StoreInsertKeyed(vr, this, k, tk) ==
    StoreInsertMade(vr, this, tk, StoreMake(vr, tk.s, k))

\* x[0] with the element an operation on it returned
StoreSetElement(this, r) ==
    [s |-> Write(r.s, Owned(this), [Cell(r.s, Owned(this)) EXCEPT !.list[1] = r.v]),
     v |-> this]

\* Value x(...), where the former x has been destroyed
StoreNew(x, k) ==
    /\ mem' = [MemSet(x, StoreMake(build.value, StoreDestroy(mem.store, mem[x]), k))
                  EXCEPT !.twin = FALSE]
    /\ Within
    /\ UNCHANGED <<nullobj, build, doc, other, json, stream, root, ret, out>>

\* x.append(Value(...))
StoreAppendTemp(x, k) ==
    /\ mem[x].type_ \in {"NullType", "ArrayType"}
    /\ mem' = MemSet(x, StoreAppendMade(mem[x], StoreMake(build.value, mem.store, k)))
    /\ Within
    /\ UNCHANGED <<nullobj, build, doc, other, json, stream, root, ret, out>>

\* x.insert(Value("..."), Value(...))
StoreInsertTemp(x, key, k) ==
    /\ mem[x].type_ = "ObjectType"
    /\ mem' = [mem EXCEPT !.at = x, !.store =
                  StoreInsertKeyed(build.value, mem[x], k,
                                   StoreMake(build.value, mem.store, key))]
    /\ Within
    /\ UNCHANGED <<nullobj, build, doc, other, json, stream, root, ret, out>>

\* x.clear()
StoreClearOf(x) ==
    /\ mem' = [MemSet(x, StoreClear(mem.store, mem[x])) EXCEPT !.twin = FALSE]
    /\ UNCHANGED <<nullobj, build, doc, other, json, stream, root, ret, out>>

\* x[0].append(Value(...)): a mutation of a nested element
StoreAppendNested(x, k) ==
    /\ mem[x].type_ = "ArrayType"
    /\ Held(mem.store, mem[x]) # <<>>
    /\ Held(mem.store, mem[x])[1].type_ \in {"NullType", "ArrayType"}
    /\ mem' = MemSet(x, StoreSetElement(mem[x],
                  StoreAppendMade(Held(mem.store, mem[x])[1],
                                  StoreMake(build.value, mem.store, k))))
    /\ Within
    /\ UNCHANGED <<nullobj, build, doc, other, json, stream, root, ret, out>>

\* Value x(y) for the other object y, where the former x has been destroyed
StoreCopyConstruct(x) ==
    /\ mem' = [MemSet(x, StoreCopy(StoreDestroy(mem.store, mem[x]), mem[Twin(x)], ZeroPtrs))
                  EXCEPT !.twin = TRUE]
    /\ Within
    /\ UNCHANGED <<nullobj, build, doc, other, json, stream, root, ret, out>>

\* x = y for the other object y
StoreCopyAssignTo(x) ==
    /\ mem' = [MemSet(x, StoreCopyAssign(mem.store, mem[x], mem[Twin(x)]))
                  EXCEPT !.twin = TRUE]
    /\ Within
    /\ UNCHANGED <<nullobj, build, doc, other, json, stream, root, ret, out>>

NextReader ==
    \/ \E k \in RootSeeds : SetRoot(k)
    \/ \E c \in TypeChars : Type(c)
    \/ \E text \in Samples : LoadSample(text)
    \/ \E flag \in ParseFlag : Parse(flag)

\* arrays: built by append, read by index
NextArray ==
    \/ NewDoc("Value(ArrayType)")
    \/ \E k \in Elements : NewOther(k)
    \/ \E k \in Elements : AppendTemp(k)
    \/ AppendMove
    \/ AppendCopy
    \/ \E index \in 0..MaxIndex : Index(index)
    \/ Clear

\* objects: built by insert
NextObject ==
    \/ NewDoc("Value(ObjectType)")
    \/ \E k \in Elements : NewOther(k)
    \/ \E k \in Elements, key \in Keys : InsertTemp(key, k)
    \/ \E key \in Keys : InsertMove(key)
    \/ \E key \in Keys : LookupConst(key)
    \/ \E key \in Keys : LookupMutable(key)

\* Values of every type, moved into one another
NextMove ==
    \/ \E k \in Seeds : NewDoc(k)
    \/ \E k \in Seeds : NewOther(k)
    \/ \E k \in Elements : AppendTemp(k)
    \/ MoveAssignDoc
    \/ MoveAssignOther
    \/ \E junk \in Junk : MoveConstructDoc(junk)

NextValue == NextArray \/ NextObject \/ NextMove \/ AppendCopy \/ CopyAssignDoc

NextRoundTrip ==
    \/ \E k \in Scalars : NewDoc(k)
    \/ \E k \in Scalars : AppendTemp(k)
    \/ \E k \in Scalars, key \in Keys : InsertTemp(key, k)
    \/ WrapArray
    \/ \E key \in Keys : WrapObject(key)
    \/ Serialize
    \/ Parse("ParseDefault")
    \/ Adopt

\* numbers: constructed, copied, moved and read
NextNumber ==
    \/ \E k \in Numbers : NewDoc(k)
    \/ \E k \in Numbers : NewOther(k)
    \/ MoveAssignDoc
    \/ CopyAssignDoc
    \/ AsNatural
    \/ AsReal

NextCopy ==
    \/ \E x \in Names, k \in News : StoreNew(x, k)
    \/ \E x \in Names, k \in Temps : StoreAppendTemp(x, k)
    \/ \E x \in Names, key \in KeyTemps, k \in Temps : StoreInsertTemp(x, key, k)
    \/ \E x \in Names : StoreClearOf(x)
    \/ \E x \in Names, k \in Temps : StoreAppendNested(x, k)
    \/ \E x \in Names : StoreCopyConstruct(x)
    \/ \E x \in Names : StoreCopyAssignTo(x)

\* std::ostringstream os; os << doc
OstreamShift(g) ==
    /\ Building
    /\ out' = IF build.value = "value.hpp"
              THEN [Did("operator<<") EXCEPT !.st = "ok", !.text = ostream(doc)]
              ELSE [Did("operator<<") EXCEPT
                       !.st = Emitted(HasEmpty(doc), g, <<>>).st,
                       !.text = Emitted(HasEmpty(doc), g, ostreamOlder(doc, g)).text]
    /\ UNCHANGED <<nullobj, mem, build, doc, other, json, stream, root, ret>>

\* Writer<Stream> writer(os); writer << doc
WriterShift(g) ==
    /\ Building
    /\ build.value = "value.hpp"
    /\ out' = [Did("Writer") EXCEPT
                  !.st = Emitted(HasEmpty(doc), g, <<>>).st,
                  !.text = Emitted(HasEmpty(doc), g, Writer(doc, g)).text]
    /\ UNCHANGED <<nullobj, mem, build, doc, other, json, stream, root, ret>>

\* documents built and written out
NextWrite ==
    \/ \E k \in Scalars : NewDoc(k)
    \/ \E k \in Scalars : AppendTemp(k)
    \/ \E k \in Scalars, key \in Keys : InsertTemp(key, k)
    \/ WrapArray
    \/ \E key \in Keys : WrapObject(key)
    \/ \E g \in PastEnd : OstreamShift(g)
    \/ \E g \in PastEnd : WriterShift(g)

\* doc.insert(Value(...), Value(...)) with a key of any type
KeyKinds == {"Value(\"a\")", "Value(\"\")", "Value(StringType)", "Value(12)", "Value()"}

InsertKeyed(kk, k, u) ==
    /\ Building
    /\ doc.type_ = "ObjectType"
    /\ Budget + 1 <= MaxNodes
    /\ doc' = insertKey(build.value, doc, Make(build.value, kk),
                        Make(build.value, k), u).this
    /\ out' = [Did("insert key") EXCEPT
                  !.st = insertKey(build.value, doc, Make(build.value, kk),
                                   Make(build.value, k), u).st,
                  !.ref = Make(build.value, kk), !.this0 = doc]
    /\ UNCHANGED <<nullobj, mem, build, other, json, stream, root, ret>>

\* members inserted under keys of every type
NextKey ==
    \/ NewDoc("Value(ObjectType)")
    \/ \E kk \in KeyKinds, k \in Elements, u \in KeyRead : InsertKeyed(kk, k, u)

\* the instance behind static Value& null(): its reference is not const
NullAppend(k) ==
    /\ Building
    /\ nullobj.type_ \in {"NullType", "ArrayType"}
    /\ Nodes(nullobj) + 1 <= MaxNodes
    /\ nullobj' = append(build.value, nullobj, Make(build.value, k)).this
    /\ out' = Did("null().append")
    /\ UNCHANGED <<mem, build, doc, other, json, stream, root, ret>>

\* Value::null()[key]: the mutable accessor, on the instance behind null()
NullMember(key) ==
    /\ Building
    /\ nullobj.type_ \in {"NullType", "ObjectType"}
    /\ Nodes(nullobj) + 1 <= MaxNodes
    /\ nullobj' = LookupOrCreate(build.value, nullobj, key)
    /\ out' = [Did("null()[key]") EXCEPT !.key = key]
    /\ UNCHANGED <<mem, build, doc, other, json, stream, root, ret>>

\* Value::null() = Value(...)
NullAssign(k) ==
    /\ Building
    /\ nullobj' = MoveAssign(build.value, nullobj, Make(build.value, k)).this
    /\ out' = Did("null() =")
    /\ UNCHANGED <<mem, build, doc, other, json, stream, root, ret>>

\* const Value& r = doc[key] on a const doc: a miss answers with the
\* instance behind null()
NullLookup(key) ==
    /\ Building
    /\ doc.type_ \in {"NullType", "ObjectType"}
    /\ out' = [Did("const lookup") EXCEPT
                 !.key = key,
                 !.ref = IF doc.type_ = "ObjectType" /\
                            FindMember(build.value, doc.value_.o.members_,
                                       make_key(build.value, key)) # 0
                         THEN Lookup(build.value, doc, key) ELSE nullobj,
                 !.this0 = doc]
    /\ UNCHANGED <<nullobj, mem, build, doc, other, json, stream, root, ret>>

\* a client that holds the reference null() hands out
NextNull ==
    \/ \E k \in {"Value()", "Value(ObjectType)"} : NewDoc(k)
    \/ \E k \in Elements, key \in Keys : InsertTemp(key, k)
    \/ \E key \in Keys : NullLookup(key)
    \/ \E k \in Elements : NullAppend(k)
    \/ \E key \in Keys : NullMember(key)
    \/ \E k \in {"Value()", "Value(12)"} : NullAssign(k)

\* x = std::move(y) for the other object y
StoreMoveAssignTo(x) ==
    /\ mem' = [mem EXCEPT
                  ![x] = StoreMoveAssign(mem.store, mem[x], mem[Twin(x)]).v,
                  ![Twin(x)] = StoreMoveAssign(mem.store, mem[x], mem[Twin(x)]).other,
                  !.store = StoreMoveAssign(mem.store, mem[x], mem[Twin(x)]).s,
                  !.at = x, !.twin = FALSE]
    /\ UNCHANGED <<nullobj, build, doc, other, json, stream, root, ret, out>>

\* x = x[i - 1]
StoreAssignElementOf(x, i, u) ==
    /\ mem[x].type_ = "ArrayType"
    /\ i <= Len(Held(mem.store, mem[x]))
    /\ mem' = [MemSet(x, StoreAssignElement(mem.store, mem[x], i, u))
                  EXCEPT !.twin = FALSE]
    /\ UNCHANGED <<nullobj, build, doc, other, json, stream, root, ret, out>>

\* x = std::move(x[i - 1])
StoreMoveElementOf(x, i, u) ==
    /\ mem[x].type_ = "ArrayType"
    /\ i <= Len(Held(mem.store, mem[x]))
    /\ mem' = [MemSet(x, StoreMoveElement(mem.store, mem[x], i, u))
                  EXCEPT !.twin = FALSE]
    /\ UNCHANGED <<nullobj, build, doc, other, json, stream, root, ret, out>>

\* no undefined behaviour so far
Sound == ~mem.store.fault

\* the copy client, with move assignment and with assignments whose right
\* side lives in the left side; nothing is modelled after undefined
\* behaviour
NextOwn ==
    \/ \E x \in Names, k \in News : Sound /\ StoreNew(x, k)
    \/ \E x \in Names, k \in Temps : Sound /\ StoreAppendTemp(x, k)
    \/ \E x \in Names, key \in KeyTemps, k \in Temps : Sound /\ StoreInsertTemp(x, key, k)
    \/ \E x \in Names : Sound /\ StoreClearOf(x)
    \/ \E x \in Names : Sound /\ StoreCopyAssignTo(x)
    \/ \E x \in Names : Sound /\ StoreMoveAssignTo(x)
    \/ \E x \in Names, i \in 1..MaxHeld, u \in Released :
          Sound /\ StoreAssignElementOf(x, i, u)
    \/ \E x \in Names, i \in 1..MaxHeld, u \in Released :
          Sound /\ StoreMoveElementOf(x, i, u)

\* doc.insert(Value(key), Value(...)) with a key doc does not hold yet
InsertFresh(key, k) ==
    /\ Building
    /\ doc.type_ = "ObjectType"
    /\ FindMember(build.value, doc.value_.o.members_, make_key(build.value, key)) = 0
    /\ Budget + 1 <= MaxNodes + 2
    /\ doc' = insert(build.value, doc, ValueString(build.value, key, ZeroHolder),
                     Make(build.value, k)).this
    /\ out' = Did("insert")
    /\ UNCHANGED <<nullobj, mem, build, other, json, stream, root, ret>>

\* other.insert(Value(key), Value(...)) with a key other does not hold yet
InsertFreshOther(key, k) ==
    /\ Building
    /\ other.type_ = "ObjectType"
    /\ FindMember(build.value, other.value_.o.members_, make_key(build.value, key)) = 0
    /\ Budget + 1 <= MaxNodes + 2
    /\ other' = insert(build.value, other, ValueString(build.value, key, ZeroHolder),
                       Make(build.value, k)).this
    /\ out' = Did("insert other")
    /\ UNCHANGED <<nullobj, mem, build, doc, json, stream, root, ret>>

\* two Objects filled with members of distinct keys, each in its own order
NextOrder ==
    \/ NewDoc("Value(ObjectType)")
    \/ NewOther("Value(ObjectType)")
    \/ \E key \in Keys, k \in Elements : InsertFresh(key, k)
    \/ \E key \in Keys, k \in Elements : InsertFreshOther(key, k)

Next == NextReader \/ NextValue \/ NextRoundTrip \/ NextCopy \/ NextNumber \/ NextWrite \/ NextKey \/ NextNull \/ NextOwn \/ NextOrder

Spec == Init /\ [][Next]_vars

\* a client that prepares texts and parses them
SpecReader == Init /\ [][NextReader]_vars

\* a client that builds and queries Values
SpecValue == Init /\ [][NextValue]_vars

SpecArray == Init /\ [][NextArray]_vars

SpecObject == Init /\ [][NextObject]_vars

SpecMove == Init /\ [][NextMove]_vars

\* a client of the latest revision that builds a document, serializes it,
\* parses the text back and goes on with the parsed root
InitLatest == Init /\ build = [reader |-> "part_002", value |-> "value.hpp"]

SpecRoundTrip == InitLatest /\ [][NextRoundTrip]_vars

SpecNumber == Init /\ [][NextNumber]_vars

SpecCopy == InitLatest /\ [][NextCopy]_vars

SpecWrite == Init /\ [][NextWrite]_vars

SpecKey == Init /\ [][NextKey]_vars

SpecNull == Init /\ [][NextNull]_vars

SpecOwn == InitLatest /\ [][NextOwn]_vars

SpecOrder == Init /\ [][NextOrder]_vars

\* ------------------------------------------------------------------------
\* Properties
\* ------------------------------------------------------------------------

\* parse has been called on the text
Called == ret.ret # "none"

\* the reader of the last call
LastCx == [rd |-> build.reader, vr |-> build.value, flag |-> ret.flag, json |-> json]

\* the first character of the text that is not whitespace
RootChar == peek(json, SkipWhitespace(json, 0))

\* the value the grammar reads at the start of the text
RootValue == Dispatch(LastCx, SkipWhitespace(json, 0))

\* a well-formed object or array, then something that is not whitespace
TrailingContent ==
    /\ RootChar \in {"{", "["}
    /\ RootValue.st = "ok"
    /\ peek(json, SkipWhitespace(json, RootValue.src)) # NUL

\* the text opens an array whose first element is a string token with a
\* backslash before its closing quote
BackslashInString ==
    /\ Len(json) >= 3
    /\ json[1] = "["
    /\ json[2] = "\""
    /\ ScanString([LastCx EXCEPT !.rd = "part_002"], 2).k = "escape"

\* C1: parse never accepts a text whose first non-whitespace character is
\* neither '{' nor '[', nor an empty or whitespace-only text: a bare scalar
\* at the root is not a document
C1_BareScalarRejected ==
    (Called /\ RootChar \notin {"{", "["}) => ret.ret # "true"

\* C2: a well-formed root object or array followed, after whitespace, by
\* anything but the end of the input makes parse report failure
C2_TrailingContentRejected ==
    (Called /\ TrailingContent) => ret.ret = "false"

\* C3: no error escapes the top-level parse: whatever is raised while
\* parsing is caught and parse returns
C3_NoErrorEscapes == ret.ret # "escaped"

\* C4: when parse returns false, root holds the value it held before the
\* call
C4_RootUnchangedOnFailure ==
    ret.ret = "false" => Live(root) = Live(ret.root0)

\* C5: inserting under a key the Object already holds leaves the member
\* count unchanged and makes the member hold the inserted value
C5_InsertOverwrites ==
    (/\ out.op = "insert"
     /\ FindMember(build.value, out.this0.value_.o.members_,
                   make_key(build.value, out.key)) # 0)
    => /\ size(doc) = size(out.this0)
       /\ Live(Lookup(build.value, doc, out.key)) = Live(out.ref)

\* C6: a backslash inside a string token makes parse fail with the
\* unsupported-escape error, as a false return or as the error itself
C6_BackslashUnsupported ==
    (Called /\ ret.flag = "ParseDefault" /\ BackslashInString)
    => /\ ret.ret \in {"false", "escaped"}
       /\ ret.msg = "Currently not supported!"

\* C7: parsing the serialization of a document succeeds and yields a tree
\* with the same types, numeric types, member names, element order and
\* scalar contents
C7_RoundTrip ==
    (Called /\ out.op \in {"serialize", "reserialize"})
    => /\ ret.ret = "true"
       /\ Live(root) = Live(doc)

\* C8: the serialization of a document parsed back from a text is that text
C8_Idempotent == out.op = "reserialize" => json = out.text

\* C9: doc[i] designates the i-th element when i < size() and raises
\* runtime_error("Out of range") for every i >= size(); the array is as it
\* was before the access
C9_IndexBounds ==
    out.op = "index"
    => /\ doc = out.this0
       /\ out.index < size(doc)
            => out.st = "ok" /\ out.ref = doc.value_.a.elements_[out.index + 1]
       /\ out.index >= size(doc)
            => out.st = "throw" /\ out.exc = "runtime_error" /\ out.msg = "Out of range"

\* an access at i = size() on an array of two elements has raised the error
C9_IndexAtSize ==
    /\ out.op = "index"
    /\ size(doc) = 2
    /\ out.index = 2
    /\ out.st = "throw"

\* C10: after a move construction or a move assignment from a distinct
\* source the destination holds the source's former type and payload and
\* the source's type is Null, whatever type the destination had
C10_MoveResetsSource ==
    [][/\ MoveAssignDoc => (Live(doc') = Live(other) /\ other'.type_ = "NullType")
       /\ MoveAssignOther => (Live(other') = Live(doc) /\ doc'.type_ = "NullType")
       /\ (\E junk \in Junk : MoveConstructDoc(junk))
            => (Live(doc') = Live(other) /\ other'.type_ = "NullType")]_vars

\* x is made a copy of the other object
CopyTo(x) == StoreCopyConstruct(x) \/ StoreCopyAssignTo(x)

\* C11: a copy (copy construction or copy assignment) equals the original
\* and shares no container with it: after a copy the two show the same
\* value, no address is reachable from both, and every operation on one of
\* the two (copy into it, construct, append, insert, clear, append to a
\* nested element) leaves what the other shows unchanged; no released
\* address is ever touched.
C11_CopyIsDeep ==
    [][/\ CopyTo(mem'.at) =>
             View(mem'.store, mem'[mem'.at]) = View(mem.store, mem[Twin(mem'.at)])
       /\ View(mem'.store, mem'[Twin(mem'.at)]) = View(mem.store, mem[Twin(mem'.at)])
       /\ Reach(mem'.store, mem'.a) \cap Reach(mem'.store, mem'.b) = {}
       /\ ~mem'.store.fault]_vars

\* a holds a nested array that was copied into b and then grew in one of
\* the two only
C11_CopyThenNestedAppend ==
    /\ mem.twin
    /\ mem.a.type_ = "ArrayType" /\ mem.b.type_ = "ArrayType"
    /\ Len(Held(mem.store, mem.a)) = 1 /\ Len(Held(mem.store, mem.b)) = 1
    /\ Held(mem.store, mem.a)[1].type_ = "ArrayType"
    /\ Held(mem.store, mem.b)[1].type_ = "ArrayType"
    /\ View(mem.store, mem.a) # View(mem.store, mem.b)

\* the member names of an Object Value (none for a Null Value)
KeyStrings(v) ==
    IF v.type_ = "ObjectType"
    THEN {v.value_.o.members_[i].first.value_.s.str_ : i \in DOMAIN v.value_.o.members_}
    ELSE {}

\* the members of an Object Value as what the accessors show
LiveMembers(v) ==
    IF v.type_ = "ObjectType"
    THEN {[first |-> Live(v.value_.o.members_[i].first),
           second |-> Live(v.value_.o.members_[i].second)] :
              i \in DOMAIN v.value_.o.members_}
    ELSE {}

\* C12: keyed lookup of an absent key. The mutable accessor leaves an
\* Object with exactly one member more, a Null under that key, and every
\* former member as it was; the const accessor returns the shared null
\* instance and leaves the Value unchanged.
C12_LookupAbsentKey ==
    /\ (out.op = "lookup or create" /\ out.key \notin KeyStrings(out.this0)) =>
          /\ doc.type_ = "ObjectType"
          /\ size(doc) = size(out.this0) + 1
          /\ LiveMembers(doc) =
                LiveMembers(out.this0) \cup
                  {[first |-> Live(ValueString(build.value, out.key, ZeroHolder)),
                    second |-> Live(ValueNull(ZeroHolder))]}
          /\ out.ref.type_ = "NullType"
    /\ (out.op = "lookup" /\ out.key \notin KeyStrings(out.this0)) =>
          /\ out.st = "null()"
          /\ out.ref.type_ = "NullType"
          /\ doc = out.this0

\* an Object with one member was asked for another key through the mutable
\* accessor
C12_SecondMemberCreated ==
    /\ out.op = "lookup or create"
    /\ out.this0.type_ = "ObjectType" /\ size(out.this0) = 1
    /\ out.key \notin KeyStrings(out.this0)
    /\ size(doc) = 2

\* doc after an append of an element that shows as value: an Array with one
\* element more, the former elements at their indexes, the new one last
Appended(value) ==
    /\ doc'.type_ = "ArrayType"
    /\ size(doc') = size(doc) + 1
    /\ \A i \in 1..size(doc) :
          doc'.value_.a.elements_[i] = doc.value_.a.elements_[i]
    /\ Live(doc'.value_.a.elements_[size(doc')]) = Live(value)

\* C13: append(value) on a Null or Array Value leaves an Array with size()
\* one more, the earlier elements at their indexes and the appended value
\* last, and the reference it returns is to that last element; on a Null
\* Value the result is an Array of size 1.
C13_AppendAddsLast ==
    [][/\ \A k \in Elements :
            AppendTemp(k) =>
              /\ Appended(Make(build.value, k))
              /\ append(build.value, doc, Make(build.value, k)).back = size(doc')
       /\ AppendMove =>
              /\ Appended(other)
              /\ append(build.value, doc, other).back = size(doc')
       /\ AppendCopy => Appended(other)]_vars

\* an append to an Array that already held an element
C13_AppendedSecond == out.op \in {"append", "append_move"} /\ size(doc) = 2

NotWhitespace(c) == ~IsWhitespace(c)

\* the text without its whitespace characters
Tokens(text) == SelectSeq(text, NotWhitespace)

\* C14: parsing '{}' yields a root of type Object with size() 0 and
\* parsing '[]' a root of type Array with size() 0, also when whitespace
\* surrounds or separates the two brackets.
C14_EmptyContainers ==
    /\ (Called /\ Tokens(json) = <<"{", "}">>) =>
          ret.ret = "true" /\ root.type_ = "ObjectType" /\ size(root) = 0
    /\ (Called /\ Tokens(json) = <<"[", "]">>) =>
          ret.ret = "true" /\ root.type_ = "ArrayType" /\ size(root) = 0

\* an empty object with whitespace before, between and after its braces
\* has been parsed into a root that held something else
C14_SpacedEmptyObject ==
    /\ Called
    /\ Tokens(json) = <<"{", "}">>
    /\ Len(json) = 6
    /\ ret.root0.type_ = "ArrayType"
    /\ root.type_ = "ObjectType"

\* C15: a Number is one kind. Of a natural n, asNatural() is n and asReal()
\* is n as a real; of a real r, asReal() is r and asNatural() is r with its
\* fraction discarded (for r within the range of natural); no accessor
\* returns the bits of one kind read as the other.
C15_NumberAccessors ==
    /\ doc.type_ = "NumberType" => doc.value_.n.type_ \in NumericType
    /\ (out.op = "asNatural" /\ doc.value_.n.type_ = "NaturalNumber") =>
          out.num = NaturalResult(doc.value_.n.num_.n)
    /\ (out.op = "asNatural" /\ doc.value_.n.type_ = "RealNumber"
            /\ InRange(doc.value_.n.num_.r)) =>
          out.num = NaturalResult(Truncated(doc.value_.n.num_.r))
    /\ (out.op = "asReal" /\ doc.value_.n.type_ = "RealNumber") =>
          out.num = RealResult(doc.value_.n.num_.r)
    /\ (out.op = "asReal" /\ doc.value_.n.type_ = "NaturalNumber") =>
          out.num = RealResult(NormReal(doc.value_.n.num_.n, 0))

\* tok is a number: an optional sign, digits, an optional '.' with digits,
\* an optional exponent of 'e' or 'E', an optional sign and digits
IsNumber(tok) ==
    LET a == IF tok # <<>> /\ tok[1] \in {"-", "+"} THEN 2 ELSE 1
        b == a + DigitRun(tok, a)
        c == IF b <= Len(tok) /\ tok[b] = "." THEN b + 1 + DigitRun(tok, b + 1) ELSE b
        d == IF c <= Len(tok) /\ tok[c] \in {"e", "E"}
             THEN IF c + 1 <= Len(tok) /\ tok[c + 1] \in {"-", "+"} THEN c + 2 ELSE c + 1
             ELSE c
        f == IF d > c THEN d + DigitRun(tok, d) ELSE c
    IN /\ b > a
       /\ c = b \/ c > b + 1
       /\ d > c => f > d
       /\ f = Len(tok) + 1

\* every character of tok may be part of a number token
NumberShaped(tok) == \A i \in DOMAIN tok : IsNumberChar(tok[i])

\* the text is one number-shaped token that is no number, alone or as the
\* only element of an array
MalformedNumber ==
    \/ NumberShaped(json) /\ ~IsNumber(json)
    \/ /\ Len(json) >= 3 /\ json[1] = "[" /\ json[Len(json)] = "]"
       /\ NumberShaped(SubSeq(json, 2, Len(json) - 1))
       /\ ~IsNumber(SubSeq(json, 2, Len(json) - 1))

\* C16: a token that is number-shaped but is no well-formed number makes
\* parse fail; it is never turned into a Number Value.
C16_MalformedNumberRejected == (Called /\ MalformedNumber) => ret.ret # "true"

\* C17: parse terminates for every text; a string token that holds a
\* backslash or the letter 'u' does not make the string scan spin.
C17_ParseTerminates == Called => ret.ret # "hang"

\* C18: parsing from a read-only stream never calls begin, put or end of
\* the stream, with either parse flag; their assertion is never reached.
C18_NoWriteSideCall == Called => ret.ret # "abort"

\* the separators of text that lie directly inside its outermost brackets
RECURSIVE TopSeparators(_, _, _)
TopSeparators(text, i, depth) ==
    IF i > Len(text) THEN 0
    ELSE IF text[i] \in {"[", "{"} THEN TopSeparators(text, i + 1, depth + 1)
    ELSE IF text[i] \in {"]", "}"} THEN TopSeparators(text, i + 1, depth - 1)
    ELSE (IF text[i] = "," /\ depth = 1 THEN 1 ELSE 0)
         + TopSeparators(text, i + 1, depth)

NothingPast == [crash |-> FALSE, text |-> <<>>]

\* the text of every entry of doc, in iteration order, joined by the
\* separator of the operation
EntriesText ==
    IF out.op = "Writer" THEN Writer(doc, NothingPast) ELSE ostreamOlder(doc, NothingPast)

Written == out.op \in {"operator<<", "Writer"} /\ doc.type_ \in {"ArrayType", "ObjectType"}

\* C19: an empty Array is written as "[]" and an empty Object as "{}"
\* with no access to an entry; a container of k >= 1 entries is written
\* with all k entries in iteration order, k-1 separators and none trailing.
C19_ContainerText ==
    Written =>
        /\ out.st = "ok"
        /\ size(doc) = 0 =>
              out.text = IF doc.type_ = "ArrayType" THEN <<"[", "]">> ELSE <<"{", "}">>
        /\ size(doc) >= 1 =>
              /\ out.text = EntriesText
              /\ TopSeparators(out.text, 1, 0) = size(doc) - 1
              /\ out.text[Len(out.text) - 1] # ","

\* C20: a Value that is no String, used as the key of a member, is a
\* contract violation that fails fast: no member is stored under a key
\* that is no String, and the string payload of such a key is never read.
C20_KeyIsString ==
    /\ doc.type_ = "ObjectType" => StringKeys(doc.value_.o.members_)
    /\ (out.op = "insert key" /\ out.ref.type_ # "StringType") => out.st = "abort"

\* C21: the shared null instance has tag Null and size 0 in every
\* reachable state, whatever is done through a reference to it.
C21_NullStaysNull == nullobj.type_ = "NullType" /\ size(nullobj) = 0

\* the Values in the tree of v that own a container
RECURSIVE Owners(_, _)
RECURSIVE OwnersAll(_, _)
OwnersAll(s, vs) == IF vs = <<>> THEN 0 ELSE Owners(s, Head(vs)) + OwnersAll(s, Tail(vs))

Owners(s, v) ==
    IF Owned(v) = nullptr \/ v.type_ \notin {"ObjectType", "ArrayType", "StringType"}
    THEN 0
    ELSE 1 + OwnersAll(s, Held(s, v))

\* C22: each Array, Object and String container is owned by exactly one
\* Value, none is released twice or accessed after its release, and no
\* Value is its own descendant.
C22_SingleOwner ==
    /\ ~mem.store.fault
    /\ Reach(mem.store, mem.a) \cap Reach(mem.store, mem.b) = {}
    /\ DOMAIN mem.store.cells = Reach(mem.store, mem.a) \cup Reach(mem.store, mem.b)
    /\ \A x \in Names : Cardinality(Reach(mem.store, mem[x])) = Owners(mem.store, mem[x])

\* what x shows after the step, and that nothing released was touched
Holds(x, shown) ==
    /\ View(mem'.store, mem'[x]) = shown
    /\ ~mem'.store.fault

\* C23: after a = b by copy or by move assignment, also with b an element
\* nested in a, a holds the value b had just before, and the assignment
\* has read no container it had already released.
C23_AssignHoldsRhs ==
    [][/\ (StoreCopyAssignTo(mem'.at) \/ StoreMoveAssignTo(mem'.at)) =>
             Holds(mem'.at, View(mem.store, mem[Twin(mem'.at)]))
       /\ \A i \in 1..MaxHeld, u \in Released :
             (StoreAssignElementOf(mem'.at, i, u) \/ StoreMoveElementOf(mem'.at, i, u)) =>
                 Holds(mem'.at, View(mem.store, Held(mem.store, mem[mem'.at])[i]))]_vars

\* the text between the brackets of a text that is one bracketed token
Inner == SubSeq(json, 2, Len(json) - 1)

\* the text is an array of one well-formed number that denotes an integer
\* or holds a '.'
OneNumber ==
    /\ Len(json) >= 3 /\ json[1] = "[" /\ json[Len(json)] = "]"
    /\ NumberShaped(Inner) /\ IsNumber(Inner)
    /\ StoD(Inner).st = "ok" /\ StoD(Inner).r.e >= 0

\* the integer a number without '.' denotes
Denoted(tok) == StoD(tok).r.m * Pow10(StoD(tok).r.e)

\* C24: parseNumber takes the maximal run of number characters; the result
\* is a Real when the run holds a '.', otherwise a Natural holding the
\* integer the run denotes, and the cursor ends after the run.
C24_NumberScan ==
    (Called /\ ret.ret = "true" /\ OneNumber) =>
        /\ root.type_ = "ArrayType" /\ Len(root.value_.a.elements_) = 1
        /\ root.value_.a.elements_[1].type_ = "NumberType"
        /\ root.value_.a.elements_[1].value_.n.type_ =
              (IF \E i \in DOMAIN Inner : Inner[i] = "." THEN "RealNumber"
               ELSE "NaturalNumber")
        /\ (\A i \in DOMAIN Inner : Inner[i] # ".") =>
              root.value_.a.elements_[1].value_.n.num_.n = Denoted(Inner)
        /\ stream = Len(json)

\* position of the first character from i on that is no whitespace, or 0
RECURSIVE NextToken(_, _)
NextToken(text, i) ==
    IF i > Len(text) THEN 0
    ELSE IF IsWhitespace(text[i]) THEN NextToken(text, i + 1)
    ELSE i

\* a ',' is followed, after optional whitespace, by a closing bracket
TrailingComma ==
    \E i \in DOMAIN json :
        /\ json[i] = ","
        /\ NextToken(json, i + 1) # 0
        /\ json[NextToken(json, i + 1)] \in {"]", "}"}

\* C25: a trailing comma before the closing ']' or '}' makes parse report
\* failure through its boolean result.
C25_TrailingCommaRejected == (Called /\ TrailingComma) => ret.ret = "false"

\* the messages of a string scan that failed
StringScanFailed ==
    ret.msg \in {"Lacks ending quation before the the end of string",
                 "Currently not supported!"}

\* the conversion of a number token failed
NumberScanFailed == ret.exc \in {"invalid_argument", "out_of_range"}

\* C26: a scan works on a copy of the stream and the live cursor moves
\* only when the copy is assigned back: after a string or number scan that
\* failed, the live cursor is where it was when the scan began (on the
\* opening quote, at the start of the run of number characters).
C26_FailedScanKeepsCursor ==
    Called =>
        /\ StringScanFailed => peek(json, stream) = "\""
        /\ NumberScanFailed => (stream = 0 \/ ~IsNumberChar(json[stream]))

\* C27: every String Value, however constructed, holds a cached hash equal
\* to the hash of its contents; two Strings with equal contents are the
\* same key, and an Object never holds two members with equal key strings.
C27_HashOfContents ==
    /\ (out.op = "insert key" /\ out.ref.type_ = "StringType") =>
          out.ref.value_.s.hash_ = StdHash(out.ref.value_.s.str_)
    /\ doc.type_ = "ObjectType" =>
          \A i, j \in DOMAIN doc.value_.o.members_ :
              (/\ i # j
               /\ doc.value_.o.members_[i].first.type_ = "StringType"
               /\ doc.value_.o.members_[j].first.type_ = "StringType") =>
                  doc.value_.o.members_[i].first.value_.s.str_ #
                      doc.value_.o.members_[j].first.value_.s.str_

\* the messages of the throws that follow a take() at once
ThrownOnTake ==
    {"There must be a colon after the name of object member",
     "Must be a comma or '}' after an object member",
     "Must be a comma or ']' after an array member",
     "Invalid value"}

\* the end-of-input marker has been taken
MarkerTaken == stream = Len(json) + 1

\* C28: no character after the end-of-input marker is peeked or taken:
\* the cursor never passes the position after the marker, and a take()
\* that returned the marker is followed at once by the throw that ends
\* the parse.
C28_NoReadPastEnd ==
    Called =>
        /\ stream <= Len(json) + 1
        /\ MarkerTaken => (ret.ret \in {"false", "escaped"} /\ ret.msg \in ThrownOnTake)

\* an array that is not closed: the take() after its element returns the
\* marker
C28_MarkerTakenInArray ==
    /\ Called /\ MarkerTaken
    /\ json = <<"[", "1">>
    /\ ret.msg = "Must be a comma or ']' after an array member"

\* doc and other are Objects that hold the same (key, value) pairs
SamePairs ==
    /\ doc.type_ = "ObjectType" /\ other.type_ = "ObjectType"
    /\ {Live(doc).value_.o.members_[i] : i \in DOMAIN doc.value_.o.members_} =
       {Live(other).value_.o.members_[i] : i \in DOMAIN other.value_.o.members_}

\* the text operator<< gives for v in this build
TextOf(v) ==
    IF build.value = "value.hpp" THEN ostream(v) ELSE ostreamOlder(v, NothingPast)

\* C29: pairs with pairwise distinct keys, inserted into an empty Object
\* in any order, give the same Object: the same member count, the same
\* lookup result for every key, the same iteration order and the same
\* serialized text.
C29_OrderIndependent ==
    SamePairs =>
        /\ size(doc) = size(other)
        /\ \A key \in Keys :
              Live(Lookup(build.value, doc, key)) = Live(Lookup(build.value, other, key))
        /\ Live(doc).value_.o.members_ = Live(other).value_.o.members_
        /\ TextOf(Live(doc)) = TextOf(Live(other))

Structural == {"{", "}", "[", "]", ":", ","}

\* position i of text lies inside a string token
InString(text, i) ==
    Cardinality({j \in 1..(i - 1) : text[j] = "\""}) % 2 = 1

\* the first and the last position of the run of whitespace around i
RECURSIVE RunStart(_, _)
RunStart(text, i) ==
    IF i > 1 /\ IsWhitespace(text[i - 1]) THEN RunStart(text, i - 1) ELSE i

RECURSIVE RunEnd(_, _)
RunEnd(text, i) ==
    IF i < Len(text) /\ IsWhitespace(text[i + 1]) THEN RunEnd(text, i + 1) ELSE i

\* the whitespace at i stands before the root, after it, or next to a
\* structural character
Between(text, i) ==
    /\ IsWhitespace(text[i]) /\ ~InString(text, i)
    /\ \/ RunStart(text, i) = 1
       \/ RunEnd(text, i) = Len(text)
       \/ text[RunStart(text, i) - 1] \in Structural
       \/ text[RunEnd(text, i) + 1] \in Structural

\* text without that whitespace
RECURSIVE StripFrom(_, _)
StripFrom(text, i) ==
    IF i > Len(text) THEN <<>>
    ELSE (IF Between(text, i) THEN <<>> ELSE <<text[i]>>) \o StripFrom(text, i + 1)

\* the call of parse ended as q did, with the same tree when it succeeded
SameParse(q) ==
    /\ (ret.ret = "true") = (q.ret = "true")
    /\ ret.ret = "true" => root = q.root

\* C30: whitespace before the root, after it or around a structural
\* character is insignificant: the text parses as the text without that
\* whitespace does, to the same success and the same tree.
C30_WhitespaceInsignificant ==
    Called => SameParse(parse([LastCx EXCEPT !.json = StripFrom(json, 1)], 0, ret.root0))

\* an array of two elements parsed from a text with whitespace after the
\* comma
C30_SpacedArrayParsed ==
    /\ Called /\ ret.ret = "true"
    /\ StripFrom(json, 1) # json
    /\ root.type_ = "ArrayType" /\ size(root) = 2

====
